---- MODULE Spec2Model ----
(***************************************************************************)
(* A model of wayback_extractor.py: the Candidate Builder                  *)
(* (latest_per_original), the Snapshot Resolver (pick_best_snapshot), the  *)
(* Asset Materializer (download_asset) and the per-candidate loop of       *)
(* main().  Strings are TLA+ strings and are taken apart character by      *)
(* character, as the Python code does.                                     *)
(***************************************************************************)
EXTENDS Integers, Sequences, FiniteSets, TLC

\* ------------------------------------------------------------------------
\* Strings (Python str): comparison, search, slicing
\* ------------------------------------------------------------------------

\* The characters the model's strings use, in code-point order.
AsciiOrder == " #+-./0123456789:;=?ABCDEFGHIJKLMNOPQRSTUVWXYZ_abcdefghijklmnopqrstuvwxyz"

Digits == "0123456789"

UpperCase == "ABCDEFGHIJKLMNOPQRSTUVWXYZ"

LowerCase == "abcdefghijklmnopqrstuvwxyz"

Ch(s, i) == SubSeq(s, i, i)

\* Index of character c in string s, 0 when absent (s.find(c) + 1).
RECURSIVE IndexFrom(_, _, _)
IndexFrom(s, c, i) ==
  IF i > Len(s) THEN 0 ELSE IF Ch(s, i) = c THEN i ELSE IndexFrom(s, c, i + 1)

IndexOf(s, c) == IndexFrom(s, c, 1)

Ord(c) == IndexOf(AsciiOrder, c)

IsDigit(c) == IndexOf(Digits, c) > 0

\* a < b for Python strings: lexicographic by code point.
RECURSIVE StrLess(_, _)
StrLess(a, b) ==
  IF Len(b) = 0 THEN FALSE
  ELSE IF Len(a) = 0 THEN TRUE
  ELSE IF Head(a) = Head(b) THEN StrLess(Tail(a), Tail(b))
  ELSE Ord(Head(a)) < Ord(Head(b))

StrGreater(a, b) == StrLess(b, a)

StrLessEq(a, b) == ~StrLess(b, a)

StartsWith(s, p) == Len(p) <= Len(s) /\ SubSeq(s, 1, Len(p)) = p

EndsWith(s, p) == Len(p) <= Len(s) /\ SubSeq(s, Len(s) - Len(p) + 1, Len(s)) = p

\* p in s
Contains(s, p) == \E i \in 1..(Len(s) - Len(p) + 1) : SubSeq(s, i, i + Len(p) - 1) = p

\* First index at or after `from` where p occurs in s, 0 when there is none.
RECURSIVE FindFrom(_, _, _)
FindFrom(s, p, from) ==
  IF from + Len(p) - 1 > Len(s) THEN 0
  ELSE IF SubSeq(s, from, from + Len(p) - 1) = p THEN from
  ELSE FindFrom(s, p, from + 1)

Find(s, p) == FindFrom(s, p, 1)

\* Last index at or before `from` where p occurs in s, 0 when there is none.
RECURSIVE RFindFrom(_, _, _)
RFindFrom(s, p, from) ==
  IF from < 1 THEN 0
  ELSE IF SubSeq(s, from, from + Len(p) - 1) = p THEN from
  ELSE RFindFrom(s, p, from - 1)

\* s.rfind(p) + 1
RFind(s, p) == RFindFrom(s, p, Len(s) - Len(p) + 1)

\* s.partition(sep) cut at index i of the separator (0: not found).
PartitionAt(s, i, n) ==
  IF i = 0 THEN [head |-> s, tail |-> ""]
  ELSE [head |-> SubSeq(s, 1, i - 1), tail |-> SubSeq(s, i + n, Len(s))]

\* s.partition(sep): the text before the first sep and the text after it.
Partition(s, sep) == PartitionAt(s, Find(s, sep), Len(sep))

\* s.split(sep)[0]
SplitFirst(s, sep) == Partition(s, sep).head

\* The rest of s from index i on (s[i-1:]).
From(s, i) == SubSeq(s, i, Len(s))

LowerAt(c, i) == IF i > 0 THEN Ch(LowerCase, i) ELSE c

LowerCh(c) == LowerAt(c, IndexOf(UpperCase, c))

\* s.lower()
RECURSIVE Lower(_)
Lower(s) == IF Len(s) = 0 THEN "" ELSE LowerCh(Head(s)) \o Lower(Tail(s))

\* s.lstrip(c)
RECURSIVE LStrip(_, _)
LStrip(s, c) == IF Len(s) > 0 /\ Head(s) = c THEN LStrip(Tail(s), c) ELSE s

\* re.fullmatch(r"\d{14}", ts14): the timestamp format to_ts_full accepts.
TsDigits == 14

IsTs14(ts) == Len(ts) = TsDigits /\ \A i \in 1..Len(ts) : IsDigit(Ch(ts, i))

\* ------------------------------------------------------------------------
\* urllib.parse.urlparse
\* ------------------------------------------------------------------------

SchemeChars == "+-.0123456789ABCDEFGHIJKLMNOPQRSTUVWXYZabcdefghijklmnopqrstuvwxyz"

AllIn(s, chars) == \A i \in 1..Len(s) : IndexOf(chars, Ch(s, i)) > 0

\* urlsplit's scheme test on the text before the first ":" (at index colon).
HasScheme(url, colon) ==
  /\ colon > 1
  /\ IndexOf(UpperCase \o LowerCase, Ch(url, 1)) > 0
  /\ AllIn(SubSeq(url, 1, colon - 1), SchemeChars)

\* The scheme, lower-cased, and the text after it.
SchemeAt(url, colon, has) ==
  IF has THEN [head |-> Lower(SubSeq(url, 1, colon - 1)), tail |-> From(url, colon + 1)]
  ELSE [head |-> "", tail |-> url]

SchemeColon(url, colon) == SchemeAt(url, colon, HasScheme(url, colon))

SplitScheme(url) == SchemeColon(url, Find(url, ":"))

\* The smallest positive of three indexes (0 is "not found"), 0 if none.
Min2(a, b) == IF a = 0 THEN b ELSE IF b = 0 THEN a ELSE IF a < b THEN a ELSE b

FirstHit(a, b, c) == Min2(a, Min2(b, c))

\* The netloc runs to the first of "/", "?", "#".
NetCut(s, i) ==
  IF i = 0 THEN [head |-> s, tail |-> ""]
  ELSE [head |-> SubSeq(s, 1, i - 1), tail |-> From(s, i)]

NetAt(s) == NetCut(s, FirstHit(Find(s, "/"), Find(s, "?"), Find(s, "#")))

SplitNet(rest) ==
  IF StartsWith(rest, "//") THEN NetAt(From(rest, 3)) ELSE [head |-> "", tail |-> rest]

\* urlparse's _splitparams: the ";" after the last "/".
ParamsIndexAfter(s, slash) == IF slash > 0 THEN FindFrom(s, ";", slash) ELSE Find(s, ";")

ParamsIndex(s) == ParamsIndexAfter(s, RFind(s, "/"))

SplitParams(s) == PartitionAt(s, ParamsIndex(s), 1)

UrlParts4(scheme, netloc, fragment, query, pp) ==
  [scheme |-> scheme, netloc |-> netloc, path |-> pp.head, params |-> pp.tail,
   query |-> query, fragment |-> fragment]

UrlParts3(scheme, netloc, fragment, q) ==
  UrlParts4(scheme, netloc, fragment, q.tail, SplitParams(q.head))

UrlParts2(scheme, netloc, fr) == UrlParts3(scheme, netloc, fr.tail, Partition(fr.head, "?"))

UrlParts1(scheme, net) == UrlParts2(scheme, net.head, Partition(net.tail, "#"))

UrlParts(sch) == UrlParts1(sch.head, SplitNet(sch.tail))

\* urlparse(url): scheme, netloc, path, params, query, fragment.
urlparse(url) == UrlParts(SplitScheme(url))

\* ------------------------------------------------------------------------
\* Candidate Builder
\* ------------------------------------------------------------------------

\* A row of the capture index as the code reads it: r.get("timestamp", ""),
\* r.get("original", ""), r.get("mimetype", ""); a missing field reads as "".
Row(ts, o, mime) == [timestamp |-> ts, original |-> o, mimetype |-> mime]

\* normalize_url(url, ignore_query_params)
NormalizedParts(parsed) == parsed.scheme \o "://" \o parsed.netloc \o parsed.path

normalize_url(url, ignore_query_params) ==
  IF url = "" THEN url
  ELSE IF ignore_query_params THEN NormalizedParts(urlparse(url))
  ELSE url

\* The key latest_per_original files a record under (line 399).
url_key(o, ignore_query_params) ==
  IF ignore_query_params THEN normalize_url(o, ignore_query_params) ELSE o

\* The mimetype test of line 394: mime.startswith("text/html") or "html" in mime.
MimeHtmlish(mime) == StartsWith(Lower(mime), "text/html") \/ Contains(Lower(mime), "html")

\* The filters of latest_per_original's loop body (lines 373-396): TRUE when the
\* record is skipped.  path_prefix = "" stands for None (both are falsy).
SkippedPath(path, path_prefix) ==
  \/ EndsWith(path, "/robots.txt")
  \/ (path_prefix # "" /\ ~StartsWith(path, path_prefix))

Skipped(r, cutoff, path_prefix, include_nonhtml) ==
  \/ r.original = ""
  \/ r.timestamp = ""
  \/ StrGreater(r.timestamp, cutoff)
  \/ SkippedPath(urlparse(r.original).path, path_prefix)
  \/ (~include_nonhtml /\ ~MimeHtmlish(r.mimetype))

\* The dict `latest` as a sequence of <<key, record>> in insertion order;
\* assigning to a key already present keeps its position.
DictHas(d, k) == \E i \in 1..Len(d) : d[i][1] = k

DictGet(d, k) == d[CHOOSE i \in 1..Len(d) : d[i][1] = k][2]

DictPut(d, k, v) ==
  IF DictHas(d, k)
  THEN [i \in 1..Len(d) |-> IF d[i][1] = k THEN <<k, v>> ELSE d[i]]
  ELSE Append(d, <<k, v>>)

\* One iteration of the loop of latest_per_original over record r.
\* A builder that keeps the last record seen for a key, whatever its timestamp.
LatestKeepLast(latest, k, r) == DictPut(latest, k, r)

\* Lines 400-403: keep r under key k when the key is new or r is newer.
LatestKeep(latest, k, r) ==
  IF ~DictHas(latest, k) \/ StrGreater(r.timestamp, DictGet(latest, k).timestamp)
  THEN DictPut(latest, k, r)
  ELSE latest

LatestStep(latest, r, cutoff, path_prefix, include_nonhtml, ignore_query_params) ==
  IF Skipped(r, cutoff, path_prefix, include_nonhtml) THEN latest
  ELSE LatestKeep(latest, url_key(r.original, ignore_query_params), r)

RECURSIVE LatestFold(_, _, _, _, _, _)
LatestFold(latest, records, cutoff, path_prefix, include_nonhtml, ignore_query_params) ==
  IF records = <<>> THEN latest
  ELSE LatestFold(
         LatestStep(latest, Head(records), cutoff, path_prefix, include_nonhtml,
                    ignore_query_params),
         Tail(records), cutoff, path_prefix, include_nonhtml, ignore_query_params)

\* latest_per_original(records, cutoff_ts, path_prefix, include_nonhtml,
\* ignore_query_params): list(latest.values()).
DictValues(d) == [i \in 1..Len(d) |-> d[i][2]]

latest_per_original(records, cutoff, path_prefix, include_nonhtml, ignore_query_params) ==
  DictValues(LatestFold(<<>>, records, cutoff, path_prefix, include_nonhtml,
                        ignore_query_params))

\* ------------------------------------------------------------------------
\* Responses and fetchers
\* ------------------------------------------------------------------------

\* A requests.Response as the code reads it: status_code, the header
\* X-Archive-Orig-status ("" when absent), the header Content-Type ("" when
\* absent: headers.get("Content-Type", "")) and the body.  A body is a sequence
\* of items; <<>> is the empty body b"".
Resp(code, orig, ctype, body) ==
  [status_code |-> code, orig_status |-> orig, content_type |-> ctype, content |-> body]

\* requests.Response() with only status_code set (lines 466-467, 471-472).
Synthesized(code) == Resp(code, "", "", <<>>)

\* What session.get does on the wire: it returns a response, or it raises
\* requests.exceptions.Timeout, SSLError or ConnectionError.
Returned(r) == [exc |-> "none", resp |-> r]

Raised(e) == [exc |-> e, resp |-> Synthesized(0)]

\* fetch_id / fetch_if (lines 460-489): the handlers catch Timeout and then every
\* Exception, so the call itself never raises.
FetchHandlers(outcome) ==
  IF outcome.exc = "none" THEN [raised |-> "none", resp |-> outcome.resp]
  ELSE IF outcome.exc = "Timeout" THEN [raised |-> "none", resp |-> Synthesized(504)]
  ELSE [raised |-> "none", resp |-> Synthesized(500)]

fetch_id(outcome) == FetchHandlers(outcome)

fetch_if(outcome) == FetchHandlers(outcome)

\* str.split()[0]: the first whitespace-separated token, "" when there is none
\* (the code's IndexError).
FirstToken(s) == SplitFirst(LStrip(s, " "), " ")

RECURSIVE DigitsValue(_, _)
DigitsValue(s, acc) ==
  IF Len(s) = 0 THEN acc ELSE DigitsValue(Tail(s), acc * 10 + (IndexOf(Digits, Head(s)) - 1))

\* int(token): <<n>> when the token is an optionally signed run of digits, <<>> when
\* int() raises.
ParseDigits(body, sign) ==
  IF Len(body) > 0 /\ AllIn(body, Digits) THEN << sign * DigitsValue(body, 0) >> ELSE <<>>

ParseInt(tok) ==
  IF Len(tok) > 0 /\ Head(tok) = "-" THEN ParseDigits(Tail(tok), 0 - 1)
  ELSE IF Len(tok) > 0 /\ Head(tok) = "+" THEN ParseDigits(Tail(tok), 1)
  ELSE ParseDigits(tok, 1)

\* The code origin_ok reads from the header: <<code>>, or <<>> for None.
OrigCode(resp) ==
  IF resp.orig_status = "" THEN <<>> ELSE ParseInt(FirstToken(resp.orig_status))

\* origin_ok(resp)
\* A check of the outer status alone, the header not read.
origin_ok_outer(resp) == 200 <= resp.status_code /\ resp.status_code < 300

OriginOkCode(code, status_code) ==
  IF code # <<>>
  THEN 200 <= code[1] /\ code[1] < 300
  ELSE 200 <= status_code /\ status_code < 300

origin_ok(resp) == OriginOkCode(OrigCode(resp), resp.status_code)

\* looks_html(resp)
\* A content-type check that lets every type through.
looks_html_any(resp) == TRUE

LooksHtmlType(ctype) ==
  \/ StartsWith(ctype, "text/html")
  \/ StartsWith(ctype, "application/xhtml+xml")
  \/ Contains(ctype, "html")

looks_html(resp) == LooksHtmlType(Lower(resp.content_type))

\* ------------------------------------------------------------------------
\* Snapshot Resolver
\* ------------------------------------------------------------------------

\* Insert r into a list sorted newest first, after every entry at least as new:
\* sorted(..., reverse=True) is stable.
RECURSIVE InsertDesc(_, _)
InsertDesc(sorted, r) ==
  IF sorted = <<>> THEN <<r>>
  ELSE IF StrGreater(r.timestamp, Head(sorted).timestamp) THEN <<r>> \o sorted
  ELSE <<Head(sorted)>> \o InsertDesc(Tail(sorted), r)

RECURSIVE SortFold(_, _)
SortFold(sorted, records) ==
  IF records = <<>> THEN sorted ELSE SortFold(InsertDesc(sorted, Head(records)), Tail(records))

\* A resolver that takes the list in the order given.
unsorted_records(records) == records

\* sorted(records, key=lambda x: x["timestamp"], reverse=True)  (line 424)
sorted_records(records) == SortFold(<<>>, records)

\* The three checks of the loop body (lines 435-448): TRUE when the capture is
\* returned.
Usable(resp, include_nonhtml) ==
  /\ resp.status_code = 200
  /\ origin_ok(resp)
  /\ (include_nonhtml \/ looks_html(resp))

\* ------------------------------------------------------------------------
\* Paths (os.path) and URL joining
\* ------------------------------------------------------------------------

\* s.split("/")
RECURSIVE Split(_)
Split(s) ==
  IF Find(s, "/") = 0 THEN <<s>>
  ELSE <<Partition(s, "/").head>> \o Split(Partition(s, "/").tail)

\* "/".join(segs)
RECURSIVE Join(_)
Join(segs) ==
  IF segs = <<>> THEN ""
  ELSE IF Len(segs) = 1 THEN segs[1]
  ELSE segs[1] \o "/" \o Join(Tail(segs))

\* The segments os.path.normpath keeps: empty and "." segments dropped, ".."
\* taking away the segment before it.
RECURSIVE NormFold(_, _)
NormFold(acc, segs) ==
  IF segs = <<>> THEN acc
  ELSE IF Head(segs) \in {"", "."} THEN NormFold(acc, Tail(segs))
  ELSE IF Head(segs) = ".." /\ acc # <<>> /\ acc[Len(acc)] # ".."
       THEN NormFold(SubSeq(acc, 1, Len(acc) - 1), Tail(segs))
  ELSE NormFold(Append(acc, Head(segs)), Tail(segs))

\* The process's working directory, where os.path.abspath anchors relative paths.
Cwd == "/w"

\* os.path.join(a, b)
path_join(a, b) ==
  IF StartsWith(b, "/") THEN b
  ELSE IF a = "" \/ EndsWith(a, "/") THEN a \o b
  ELSE a \o "/" \o b

\* The segments of os.path.abspath(p).
AbsSegs(pth) == NormFold(<<>>, Split(path_join(Cwd, pth)))

\* s.rstrip("/")
RECURSIVE RStripSlash(_)
RStripSlash(h) ==
  IF Len(h) > 0 /\ Ch(h, Len(h)) = "/" THEN RStripSlash(SubSeq(h, 1, Len(h) - 1)) ELSE h

\* os.path.dirname(p)
DirHead(head) == IF AllIn(head, "/") THEN head ELSE RStripSlash(head)

dirname(pth) == DirHead(SubSeq(pth, 1, RFind(pth, "/")))

\* Length of the common prefix of two segment lists.
RECURSIVE CommonLen(_, _)
CommonLen(a, b) ==
  IF a = <<>> \/ b = <<>> \/ Head(a) # Head(b) THEN 0 ELSE 1 + CommonLen(Tail(a), Tail(b))

\* os.path.relpath(path, start)
RelJoin(rel) == IF rel = <<>> THEN "." ELSE Join(rel)

RelFrom(ps, ss, i) == RelJoin([k \in 1..(Len(ss) - i) |-> ".."] \o SubSeq(ps, i + 1, Len(ps)))

RelSegs(ps, ss) == RelFrom(ps, ss, CommonLen(ss, ps))

relpath(pth, start) == RelSegs(AbsSegs(pth), AbsSegs(IF start = "" THEN "." ELSE start))

\* urllib.parse.urljoin(base, ref) for a base with a scheme and a netloc.
Prefixed(mark, part) == IF part # "" THEN mark \o part ELSE ""

Either(a, b) == IF a # "" THEN a ELSE b

\* urlunparse of a URL with a scheme and a netloc: a path that does not start
\* with "/" is given one.
Unparse(scheme, netloc, path, params, query, fragment) ==
  scheme \o "://" \o netloc
  \o (IF path # "" /\ ~StartsWith(path, "/") THEN "/" \o path ELSE path)
  \o Prefixed(";", params) \o Prefixed("?", query) \o Prefixed("#", fragment)

\* base_parts: the segments of the base path without the last one, unless that
\* is empty.
BaseParts(parts) ==
  IF parts[Len(parts)] # "" THEN SubSeq(parts, 1, Len(parts) - 1) ELSE parts

\* segments[1:-1] = filter(None, segments[1:-1])
NonEmpty(seg) == seg # ""

MiddleFiltered(segs) ==
  IF Len(segs) <= 2 THEN segs
  ELSE <<segs[1]>> \o SelectSeq(SubSeq(segs, 2, Len(segs) - 1), NonEmpty) \o <<segs[Len(segs)]>>

\* The loop over the segments: ".." takes away the segment before it when there
\* is one, "." is dropped.
RECURSIVE ResolveDots(_, _)
ResolveDots(acc, segs) ==
  IF segs = <<>> THEN acc
  ELSE IF Head(segs) = ".."
    THEN ResolveDots(IF acc = <<>> THEN acc ELSE SubSeq(acc, 1, Len(acc) - 1), Tail(segs))
  ELSE IF Head(segs) = "." THEN ResolveDots(acc, Tail(segs))
  ELSE ResolveDots(Append(acc, Head(segs)), Tail(segs))

ResolvedPath(segs, resolved) ==
  Either(Join(IF segs[Len(segs)] \in {".", ".."} THEN Append(resolved, "") ELSE resolved), "/")

MergedPath(segs) == ResolvedPath(segs, ResolveDots(<<>>, segs))

\* The path of the joined URL for a reference with a path.
JoinedPath(bpath, rpath) ==
  MergedPath(IF StartsWith(rpath, "/") THEN Split(rpath)
             ELSE MiddleFiltered(BaseParts(Split(bpath)) \o Split(rpath)))

UrlJoinParts(base, ref, b, r) ==
  IF ref = "" THEN base
  ELSE IF r.scheme # "" /\ r.scheme # b.scheme THEN ref
  ELSE IF r.netloc # ""
    THEN Unparse(b.scheme, r.netloc, r.path, r.params, r.query, r.fragment)
  ELSE IF r.path = ""
    THEN Unparse(b.scheme, b.netloc, b.path, Either(r.params, b.params),
                 Either(r.query, b.query), r.fragment)
  ELSE Unparse(b.scheme, b.netloc, JoinedPath(b.path, r.path), r.params, r.query, r.fragment)

urljoin(base, ref) == UrlJoinParts(base, ref, urlparse(base), urlparse(ref))

\* ensure_local_path(path)
WithIndex(pth) ==
  IF pth = "" \/ EndsWith(pth, "/") THEN Either(pth, "/") \o "index.html" ELSE pth

\* A derivation that takes one leading separator away and no more.
ensure_local_path_one(pth) ==
  IF StartsWith(SplitFirst(SplitFirst(WithIndex(pth), "?"), "#"), "/")
  THEN Tail(SplitFirst(SplitFirst(WithIndex(pth), "?"), "#"))
  ELSE SplitFirst(SplitFirst(WithIndex(pth), "?"), "#")

ensure_local_path(pth) == LStrip(SplitFirst(SplitFirst(WithIndex(pth), "?"), "#"), "/")

\* is_same_site(url, root_host)
SameHost(h, root_host) == h = root_host \/ EndsWith(h, "." \o root_host)

is_same_site(url, root_host) == SameHost(Lower(urlparse(url).netloc), root_host)

\* ------------------------------------------------------------------------
\* Content Rewriter
\* ------------------------------------------------------------------------

\* A document or stylesheet body is a sequence of items.  An HTML element is
\* Item(tag, rel, ref): its tag, its rel attribute and its src/href ("" when it
\* has none); tag "style" is an element with an inline style="...url(ref)...".
\* A stylesheet's url(...) occurrence is Item("url", quote, ref).
Item(tag, rel, ref) == [tag |-> tag, rel |-> rel, ref |-> ref]

\* The banner main() injects (lines 539-546), as one element.
Banner == Item("banner", "", "")

\* The relative reference the rewriter writes for same-site URL absu on the page
\* at base_url (lines 575-577, 592-594, 605-607).
PageRelFrom(local, html_dir) == relpath(local, Either(html_dir, "."))

PageRel(absu, base_url) ==
  PageRelFrom(ensure_local_path(urlparse(absu).path),
              dirname(ensure_local_path(urlparse(base_url).path)))

\* The link elements of lines 585-586: rel matches stylesheet, icon,
\* shortcut icon or apple-touch-icon, ignoring case.
IsAssetLink(it) ==
  it.tag = "link"
  /\ (Contains(Lower(it.rel), "stylesheet") \/ Contains(Lower(it.rel), "icon"))

\* What becomes of one element whose reference resolves to absu: <<>> when it is
\* removed (decompose), else the element with its reference rewritten.
RewriteResolved(it, base_url, remove_all_scripts, absu, same) ==
  IF it.tag = "wm-ipp" THEN <<>>
  ELSE IF it.tag = "script"
    THEN IF remove_all_scripts THEN <<>>
         ELSE IF it.ref # "" /\ ~same THEN <<>>
         ELSE <<it>>
  ELSE IF it.tag \in {"a", "img", "style"} \/ IsAssetLink(it)
    THEN IF it.ref # "" /\ same
         THEN <<Item(it.tag, it.rel, PageRel(absu, base_url))>>
         ELSE <<it>>
  ELSE <<it>>

RewriteAbs(it, base_url, root_host, remove_all_scripts, absu) ==
  RewriteResolved(it, base_url, remove_all_scripts, absu, is_same_site(absu, root_host))

RewriteElement(it, base_url, root_host, remove_all_scripts) ==
  RewriteAbs(it, base_url, root_host, remove_all_scripts, urljoin(base_url, it.ref))

\* The URLs one element adds to `assets` (lines 565, 579, 595).
CollectedResolved(it, remove_all_scripts, absu, same) ==
  IF it.ref = "" \/ ~same THEN {}
  ELSE IF it.tag = "script" THEN (IF remove_all_scripts THEN {} ELSE {absu})
  ELSE IF it.tag = "img" \/ IsAssetLink(it) THEN {absu}
  ELSE {}

CollectedAbs(it, root_host, remove_all_scripts, absu) ==
  CollectedResolved(it, remove_all_scripts, absu, is_same_site(absu, root_host))

CollectedFrom(it, base_url, root_host, remove_all_scripts) ==
  CollectedAbs(it, root_host, remove_all_scripts, urljoin(base_url, it.ref))

RECURSIVE RewriteElements(_, _, _, _)
RewriteElements(items, base_url, root_host, remove_all_scripts) ==
  IF items = <<>> THEN <<>>
  ELSE RewriteElement(Head(items), base_url, root_host, remove_all_scripts)
       \o RewriteElements(Tail(items), base_url, root_host, remove_all_scripts)

\* sorted(set of strings)
Least(S) == CHOOSE a \in S : \A b \in S : a = b \/ StrLess(a, b)

RECURSIVE SortedStrings(_)
SortedStrings(S) ==
  IF S = {} THEN <<>> ELSE <<Least(S)>> \o SortedStrings(S \ {Least(S)})

\* rewrite_html_and_collect(html_bytes, base_url, root_host, banner_html,
\* remove_all_scripts): (str(soup), sorted(assets)).  The only wm-ipp element of a
\* document is removed; the banner goes in first.
rewrite_html_and_collect(html_bytes, base_url, root_host, remove_all_scripts) ==
  [html |-> <<Banner>> \o RewriteElements(html_bytes, base_url, root_host, remove_all_scripts),
   assets |-> SortedStrings(UNION {CollectedFrom(html_bytes[i], base_url, root_host,
                                                 remove_all_scripts) :
                                   i \in 1..Len(html_bytes)})]

\* repl(m) of rewrite_css_urls (lines 515-524) on one url(...) occurrence.
\* A rewrite that treats every resolved URL as same-site.
CssReplAny(it, root_host, out_css_dir, absu) ==
  Item("url", "", relpath(ensure_local_path(urlparse(absu).path), out_css_dir))

CssReplAbs(it, root_host, out_css_dir, absu) ==
  IF is_same_site(absu, root_host)
  THEN Item("url", "", relpath(ensure_local_path(urlparse(absu).path), out_css_dir))
  ELSE Item("url", "", it.ref)

CssRepl(it, base_url, root_host, out_css_dir) ==
  IF it.tag # "url" THEN it
  ELSE IF StartsWith(it.ref, "data:") \/ StartsWith(it.ref, "#") THEN it
  ELSE CssReplAbs(it, root_host, out_css_dir, urljoin(base_url, it.ref))

\* rewrite_css_urls(css_bytes, base_url, root_host, out_css_dir)
rewrite_css_urls(css_bytes, base_url, root_host, out_css_dir) ==
  [i \in 1..Len(css_bytes) |-> CssRepl(css_bytes[i], base_url, root_host, out_css_dir)]

\* The stylesheet the run standardises on (lines 775-776).
standard_css_rel == "assets/stylesheets/application.css"

\* The tokens of a rel attribute (a list in BeautifulSoup).
RECURSIVE RelTokens(_)
RelTokens(t) ==
  IF Find(t, " ") = 0 THEN {t}
  ELSE {Partition(t, " ").head} \cup RelTokens(Partition(t, " ").tail)

\* rel=lambda v: v and "stylesheet" in v  (line 878)
RelHasStylesheet(rel) == rel # "" /\ "stylesheet" \in RelTokens(rel)

\* The second pass over the page (lines 877-886): every stylesheet link with an
\* href points at the standard stylesheet.
RetargetTo(html_str, rel_path) ==
  [i \in 1..Len(html_str) |->
     IF html_str[i].tag = "link" /\ RelHasStylesheet(html_str[i].rel) /\ html_str[i].ref # ""
     THEN Item("link", html_str[i].rel, rel_path)
     ELSE html_str[i]]

RetargetStylesheets(html_str, local_html_rel) ==
  RetargetTo(html_str, relpath(standard_css_rel, dirname(local_html_rel)))

\* ------------------------------------------------------------------------
\* The mirror tree and the Asset Materializer
\* ------------------------------------------------------------------------

\* The directories a path names on the way down: "out/a/b" -> out, out/a, out/a/b.
Prefixes(segs) == {Join(SubSeq(segs, 1, k)) : k \in 1..Len(segs)} \ {""}

DirChain(d) == Prefixes(Split(d))

\* os.makedirs(d, exist_ok=True) raises when a component of d is an existing file.
MakedirsRaises(files, d) == \E c \in DirChain(d) : c \in DOMAIN files

\* open(p, "wb") raises when p is a directory.
OpenRaises(dirs, pth) == pth \in dirs

\* The tree after open(p, "wb").write(content).
WriteFile(files, pth, content) ==
  [q \in DOMAIN files \cup {pth} |-> IF q = pth THEN content ELSE files[q]]

\* One fetch as the observer sees it: the capture asked for, the serving mode,
\* what the wire did and the response the fetcher handed back.
Fetch(ts, original, mode, exc, resp) ==
  [timestamp |-> ts, original |-> original, mode |-> mode, exc |-> exc, resp |-> resp]

\* What download_asset hands back and leaves on disk.  `raised` is TRUE when
\* makedirs or open raised, and then the call returned nothing.
Downloaded(raised, files, dirs, local, ok, out_path, ctype, log) ==
  [raised |-> raised, files |-> files, dirs |-> dirs, local |-> local, ok |-> ok,
   out_path |-> out_path, ctype |-> ctype, log |-> log]

\* Lines 627-633: the file written when the final response is a 200.
DownloadWrite(files, dirs, local, out_path, resp, log) ==
  IF resp.status_code # 200
  THEN Downloaded(FALSE, files, dirs, local, FALSE, out_path, resp.content_type, log)
  ELSE IF OpenRaises(dirs, out_path)
  THEN Downloaded(TRUE, files, dirs, local, FALSE, out_path, "", log)
  ELSE Downloaded(FALSE, WriteFile(files, out_path, resp.content), dirs, local, TRUE,
                  out_path, resp.content_type, log)

\* Lines 625-626: the fallback-mode fetch after an identity-mode answer r1 that is
\* not a 200.
DownloadRetry(files, dirs, ts, asset_url, local, out_path, o1, o2, r1, r2) ==
  DownloadWrite(files, dirs, local, out_path, r2,
                <<Fetch(ts, asset_url, "id", o1.exc, r1), Fetch(ts, asset_url, "if", o2.exc, r2)>>)

\* A download that takes the identity-mode answer as final.
DownloadNoRetry(files, dirs, ts, asset_url, local, out_path, o1, o2, r1) ==
  DownloadWrite(files, dirs, local, out_path, r1, <<Fetch(ts, asset_url, "id", o1.exc, r1)>>)

DownloadFetch(files, dirs, ts, asset_url, local, out_path, o1, o2, r1) ==
  IF r1.status_code # 200
  THEN DownloadRetry(files, dirs, ts, asset_url, local, out_path, o1, o2, r1, fetch_if(o2).resp)
  ELSE DownloadWrite(files, dirs, local, out_path, r1, <<Fetch(ts, asset_url, "id", o1.exc, r1)>>)

\* Line 621: os.makedirs(os.path.dirname(out_path), exist_ok=True), then line 623.
DownloadInto(files, dirs, ts, asset_url, local, out_path, out_dir, o1, o2) ==
  IF MakedirsRaises(files, out_dir)
  THEN Downloaded(TRUE, files, dirs, local, FALSE, out_path, "", <<>>)
  ELSE DownloadFetch(files, dirs \cup DirChain(out_dir), ts, asset_url, local, out_path,
                     o1, o2, fetch_id(o1).resp)

DownloadAt(files, dirs, ts, asset_url, local, out_path, o1, o2) ==
  DownloadInto(files, dirs, ts, asset_url, local, out_path, dirname(out_path), o1, o2)

DownloadLocal(files, dirs, ts, asset_url, local, outdir, o1, o2) ==
  DownloadAt(files, dirs, ts, asset_url, local, path_join(outdir, local), o1, o2)

\* download_asset(session, limiter, ts, asset_url, outdir): o1 and o2 are what the
\* wire does on the identity-mode and on the fallback-mode request.
download_asset(files, dirs, ts, asset_url, outdir, o1, o2) ==
  DownloadLocal(files, dirs, ts, asset_url, ensure_local_path(urlparse(asset_url).path),
                outdir, o1, o2)

\* The test of line 848: the download is a stylesheet.
IsCss(ok, ctype, alocal) ==
  ok /\ (Contains(Lower(ctype), "text/css") \/ EndsWith(Lower(alocal), ".css"))

\* The loop of lines 863-873 over css_paths: each downloaded stylesheet is read,
\* rewritten against the page's base_url and written back in place.
RewriteCssFile(files, css_path, base_url, root_host) ==
  IF css_path \in DOMAIN files
  THEN WriteFile(files, css_path,
                 rewrite_css_urls(files[css_path], base_url, root_host, dirname(css_path)))
  ELSE files

RECURSIVE RewriteCssFiles(_, _, _, _)
RewriteCssFiles(files, css_paths, base_url, root_host) ==
  IF css_paths = <<>> THEN files
  ELSE RewriteCssFiles(RewriteCssFile(files, Head(css_paths), base_url, root_host),
                       Tail(css_paths), base_url, root_host)

\* ------------------------------------------------------------------------
\* Inputs: the archive's rows and responses
\* ------------------------------------------------------------------------

\* Longest list of rows an enumeration or a resolver call is given.
MaxRows == 2

\* Longest list of rows a history query returns.
MaxHistory == 1

SeqsUpTo(S, n) == UNION {[1..k -> S] : k \in 0..n}

T19 == "20190101000000"

T20 == "20200101000000"

T21 == "20210101000000"

\* to_ts_eod("2020-12-31") and to_ts_eod("2019-12-31")
Cutoff2020 == "20201231235959"

Cutoff2019 == "20191231235959"

UrlA == "http://e.c/a"

UrlAQ == "http://e.c/a?q=1"

UrlAB == "http://e.c/a/b"

PageA ==
  <<Item("html", "", ""), Item("link", "stylesheet", "/s.css"),
    Item("link", "stylesheet", "/s.css?v=2"), Item("a", "", "/b/")>>

PageB == <<Item("html", "", "")>>

CssBody == <<Item("url", "'", "i.png")>>

\* What the archive may answer to a page fetch.
PageWire ==
  { Returned(Resp(200, "", "text/html; charset=utf-8", PageA)),
    Returned(Resp(200, "200", "text/html", PageB)),
    Returned(Resp(200, "404 Not Found", "text/html", PageB)),
    Returned(Resp(200, "", "application/pdf", PageB)),
    Returned(Resp(200, "", "text/html", <<>>)),
    Returned(Resp(404, "", "text/html", PageB)),
    Raised("Timeout"),
    Raised("SSLError") }

\* The answers a whole run of main() is explored with.
MainPageWire ==
  { Returned(Resp(200, "", "text/html; charset=utf-8", PageA)),
    Returned(Resp(200, "", "application/pdf", PageB)),
    Returned(Resp(200, "", "text/html", <<>>)),
    Raised("SSLError") }

\* What the archive may answer to an asset fetch.
AssetWire ==
  { Returned(Resp(200, "", "text/css", CssBody)),
    Returned(Resp(404, "", "", <<>>)) }

\* The rows enumeration may hand to main().
RowPool ==
  { Row(T20, UrlA, "text/html"), Row(T21, UrlA, "text/html"), Row(T19, UrlAB, "text/html") }

\* The timestamps of the captures the archive holds.
ArchiveTs == {T19, T20, T21}

\* The rows the capture index returns for url with "to" set (lines 409-416): the
\* index honours the upper time bound.
IndexRows(url, to) ==
  {Row(ts, url, "text/html") : ts \in {t \in ArchiveTs : StrLessEq(t, to)}}

\* A history query without the upper time bound.
cdx_history_unbounded(url, cutoff) == SeqsUpTo(IndexRows(url, "99999999999999"), MaxHistory)

\* cdx_history_for_url(session, url, cutoff_ts): some rows of the index, [] when
\* the query fails.
cdx_history_for_url(url, cutoff) == SeqsUpTo(IndexRows(url, cutoff), MaxHistory)

\* The parsed command line.
Args(cutoff, prefix, nonhtml, ignoreq, max) ==
  [domain |-> "e.c", cutoff_ts |-> cutoff, outdir |-> "out", path_prefix |-> prefix,
   include_nonhtml |-> nonhtml, ignore_query_params |-> ignoreq, strip_all_js |-> FALSE,
   max |-> max, rps |-> 10, burst |-> 2]

ArgsPool ==
  { Args(Cutoff2020, "", TRUE, FALSE, 0), Args(Cutoff2020, "", FALSE, TRUE, 0),
    Args(Cutoff2020, "", TRUE, FALSE, 1) }

\* ------------------------------------------------------------------------
\* State
\* ------------------------------------------------------------------------

VARIABLES
  args,         \* the parsed command line
  records,      \* the argument of a call explored on its own
  candidates,   \* latest_per_original's output, capped by --max
  pc,           \* where main() is
  idx,          \* the loop's position in candidates
  pick,         \* the running call of pick_best_snapshot
  cur,          \* the locals of the current loop iteration
  files,        \* the files on disk: path -> content
  dirs,         \* the directories on disk
  css_copied,   \* main's css_copied
  css_seen,     \* main's css_seen
  processed,    \* main's processed
  report_rows,  \* main's report_rows
  manifest,     \* manifest["pages"]
  obs,          \* what an observer has seen of the current candidate
  net,          \* the requests sent so far and whether limiter.take() came first
  result,       \* the value a call explored on its own returned
  enum,         \* the running call of cdx_query_variants
  limiter,      \* a RateLimiter's fields
  threads,      \* each thread's position in RateLimiter.take and its locals
  clock,        \* time.monotonic()
  granted       \* the tokens take() has handed out since construction

limVars == <<limiter, threads, clock, granted>>

vars == <<args, records, candidates, pc, idx, pick, cur, files, dirs, css_copied, css_seen,
          processed, report_rows, manifest, obs, net, result, enum, limVars>>

NoPick == [records |-> <<>>, i |-> 0, log |-> <<>>, ret |-> "idle", chosen |-> <<>>,
           content |-> <<>>]

NoCur == [original |-> "", chosen |-> <<>>, html_bytes |-> <<>>, local_html_rel |-> "",
          base_url |-> "", html_str |-> <<>>, assets |-> <<>>, ai |-> 0,
          asset_results |-> <<>>, css_paths |-> <<>>]

NoObs == [first |-> <<>>, log1 |-> <<>>, queries |-> 0, history |-> <<>>, files0 |-> <<>>,
          dirs0 |-> {}, assets |-> <<>>, steps |-> <<>>]

root_host == Lower(args.domain)

\* Nothing sent yet.  token says that limiter.take() has returned and no request
\* has used it; limited and unlimited are the functions that have sent a request
\* after a take() of their own and without one.
NoNet == [token |-> FALSE, limited |-> {}, unlimited |-> {}]

\* limiter.take() returns (lines 461, 477).
Take(n) == [n EXCEPT !.token = TRUE]

\* session.get(...) called in function fn (lines 133, 178, 202, 462, 478).
Get(n, fn) ==
  [token |-> FALSE,
   limited |-> IF n.token THEN n.limited \cup {fn} ELSE n.limited,
   unlimited |-> IF n.token THEN n.unlimited ELSE n.unlimited \cup {fn}]

\* The requests of fetch_id ("id") and fetch_if ("if"), each after its take().
RECURSIVE Fetches(_, _)
Fetches(n, log) ==
  IF log = <<>> THEN n
  ELSE Fetches(Get(Take(n), IF Head(log).mode = "id" THEN "fetch_id" ELSE "fetch_if"), Tail(log))

\* Line 321: cdx_query_variants turns to the availability API when the index
\* gave fewer unique rows than this.
MinUniq == 5

\* The requests of cdx_query_variants when it returns all_rows: those of _cdx
\* (lines 275, 294) and, with few rows, those of check_availability_api.
Enumerated(n, all_rows) ==
  IF Len(all_rows) < MinUniq THEN Get(Get(n, "_cdx"), "check_availability_api")
  ELSE Get(n, "_cdx")

\* cdx_query_variants not called.
NoEnum == [at |-> "idle", domain |-> "", subdomains |-> TRUE, todo |-> {}, log |-> <<>>,
           all_urls |-> <<>>]

\* Time is counted in ticks of 20 seconds, so that the floor of 0.05 tokens a
\* second (line 51) is one token a tick and the rates are whole numbers.
FillFloor == 1

Max2(a, b) == IF a > b THEN a ELSE b

MinOf(a, b) == IF a < b THEN a ELSE b

\* RateLimiter.__init__ (lines 48-53), at time 0; lock is the thread inside
\* "with self.lock", "" when it is free.
RateLimiter(rps, burst) ==
  [capacity |-> Max2(burst, 1), tokens |-> Max2(burst, 1), fill |-> Max2(rps, FillFloor),
   t0 |-> 0, lock |-> ""]

Threads == {"t1", "t2"}

\* A thread outside take().
Idle == [pc |-> "idle", n |-> 0, since |-> 0, need |-> 0]

\* The process with command line a at position `at`, the output directory made
\* and nothing else done; recs is the argument of a call explored on its own.
InitAt(a, recs, at) ==
  /\ args = a
  /\ records = recs
  /\ candidates = <<>>
  /\ pc = at
  /\ idx = 0
  /\ pick = NoPick
  /\ cur = NoCur
  /\ files = <<>>
  /\ dirs = {a.outdir}
  /\ css_copied = FALSE
  /\ css_seen = {}
  /\ processed = 0
  /\ report_rows = <<>>
  /\ manifest = <<>>
  /\ obs = NoObs
  /\ net = NoNet
  /\ result = <<>>
  /\ enum = NoEnum
  /\ limiter = RateLimiter(a.rps, a.burst)
  /\ threads = [t \in Threads |-> Idle]
  /\ clock = 0
  /\ granted = 0

\* main() after its setup (lines 676-690, 763-778): nothing enumerated yet.
InitMain(a) == InitAt(a, <<>>, "build")

Init == \E a \in ArgsPool : InitMain(a)

\* ------------------------------------------------------------------------
\* main(): candidates
\* ------------------------------------------------------------------------

\* Lines 697-761: the rows enumeration returns, the candidates built from them
\* and capped at --max.
Capped(built, max) ==
  IF max # 0 /\ Len(built) > max THEN SubSeq(built, 1, max) ELSE built

BuildFrom(pool) ==
  /\ pc = "build"
  /\ \E all_rows \in SeqsUpTo(pool, MaxRows) :
       /\ candidates' = Capped(latest_per_original(all_rows, args.cutoff_ts, args.path_prefix,
                                                   args.include_nonhtml,
                                                   args.ignore_query_params),
                               args.max)
       /\ net' = Enumerated(net, all_rows)
  /\ pc' = "loop"
  /\ UNCHANGED <<args, records, idx, pick, cur, files, dirs, css_copied, css_seen, processed,
                 report_rows, manifest, obs, result, enum, limVars>>

BuildCandidates == BuildFrom(RowPool)

\* ------------------------------------------------------------------------
\* pick_best_snapshot
\* ------------------------------------------------------------------------

\* The call pick_best_snapshot(records, ...): lines 424-429.  An empty list falls
\* through the loop to return None, None.
StartPick(recs) ==
  [records |-> sorted_records(recs), i |-> 1, log |-> <<>>,
   ret |-> IF recs = <<>> THEN "returned" ELSE "running", chosen |-> <<>>,
   content |-> <<>>]

\* One iteration of the loop of lines 429-453, and the return of line 456 after the
\* last one.  o1 is what the wire does on the identity-mode request, o2 on the
\* fallback-mode request of the except branch.
PickOutcome(pk, r, resp, log, include_nonhtml) ==
  IF Usable(resp, include_nonhtml)
  THEN [pk EXCEPT !.log = log, !.ret = "returned", !.chosen = <<r>>, !.content = resp.content]
  ELSE IF pk.i = Len(pk.records)
  THEN [pk EXCEPT !.log = log, !.ret = "returned", !.chosen = <<>>, !.content = <<>>]
  ELSE [pk EXCEPT !.log = log, !.i = pk.i + 1]

\* Lines 432-433: except requests.exceptions.SSLError: resp = fetch_if(...).
PickFallback(pk, r, o1, o2, f1, r2, include_nonhtml) ==
  PickOutcome(pk, r, r2,
              pk.log \o <<Fetch(r.timestamp, r.original, "id", o1.exc, f1.resp),
                          Fetch(r.timestamp, r.original, "if", o2.exc, r2)>>,
              include_nonhtml)

PickFetched(pk, r, o1, o2, f1, include_nonhtml) ==
  IF f1.raised = "SSLError"
  THEN PickFallback(pk, r, o1, o2, f1, fetch_if(o2).resp, include_nonhtml)
  ELSE PickOutcome(pk, r, f1.resp,
                   pk.log \o <<Fetch(r.timestamp, r.original, "id", o1.exc, f1.resp)>>,
                   include_nonhtml)

pick_iteration(pk, o1, o2, include_nonhtml) ==
  PickFetched(pk, pk.records[pk.i], o1, o2, fetch_id(o1), include_nonhtml)

\* The resolver's loop against an archive that answers from `wire`.
PickIterOn(wire) ==
  /\ pick.ret = "running"
  /\ \E o1 \in wire :
       \E o2 \in (IF fetch_id(o1).raised = "SSLError" THEN wire ELSE {o1}) :
         pick' = pick_iteration(pick, o1, o2, args.include_nonhtml)
  /\ net' = Fetches(net, SubSeq(pick'.log, Len(pick.log) + 1, Len(pick'.log)))
  /\ UNCHANGED <<args, records, candidates, pc, idx, cur, files, dirs, css_copied, css_seen,
                 processed, report_rows, manifest, obs, result, enum, limVars>>

\* The resolver's loop inside main().
PickIter ==
  /\ pc \in {"resolve1", "resolve2"}
  /\ PickIterOn(MainPageWire)

\* ------------------------------------------------------------------------
\* main(): the loop over the candidates
\* ------------------------------------------------------------------------

\* main's test "not chosen or not html_bytes" (lines 800, 819) on the resolver's
\* return value.
NoGoodSnapshot(pk) == pk.chosen = <<>> \/ pk.content = <<>>

\* A loop that may leave a page whose assets are still being downloaded and
\* turn to the next candidate.
StartCandidateEarly ==
  /\ pc \in {"loop", "assets"}
  /\ idx < Len(candidates)
  /\ idx' = idx + 1
  /\ cur' = [NoCur EXCEPT !.original = candidates[idx + 1].original]
  /\ pick' = StartPick(<<candidates[idx + 1]>>)
  /\ obs' = [NoObs EXCEPT !.files0 = files, !.dirs0 = dirs]
  /\ pc' = "resolve1"
  /\ UNCHANGED <<args, records, candidates, files, dirs, css_copied, css_seen, processed,
                 report_rows, manifest, net, result, enum, limVars>>

\* Lines 779-797: the next candidate; pick_best_snapshot([url_info], ...).
StartCandidate ==
  /\ pc = "loop"
  /\ idx < Len(candidates)
  /\ idx' = idx + 1
  /\ cur' = [NoCur EXCEPT !.original = candidates[idx + 1].original]
  /\ pick' = StartPick(<<candidates[idx + 1]>>)
  /\ obs' = [NoObs EXCEPT !.files0 = files, !.dirs0 = dirs]
  /\ pc' = "resolve1"
  /\ UNCHANGED <<args, records, candidates, files, dirs, css_copied, css_seen, processed,
                 report_rows, manifest,
                 net, result, enum, limVars>>

\* Lines 800-817: the first attempt gave nothing; query the URL's history and
\* resolve again on it.
QueryHistory ==
  /\ pc = "resolve1"
  /\ pick.ret = "returned"
  /\ NoGoodSnapshot(pick)
  /\ \E history \in cdx_history_for_url(cur.original, args.cutoff_ts) :
       /\ pick' = StartPick(history)
       /\ obs' = [obs EXCEPT !.first = <<[chosen |-> pick.chosen, content |-> pick.content]>>,
                             !.log1 = pick.log, !.queries = obs.queries + 1,
                             !.history = history]
  /\ net' = Get(net, "_cdx")
  /\ pc' = "resolve2"
  /\ UNCHANGED <<args, records, candidates, idx, cur, files, dirs, css_copied, css_seen,
                 processed, report_rows, manifest, result, enum, limVars>>

\* A row of report_rows.
ReportRow(original, ts, status, reason, assets) ==
  [original |-> original, timestamp |-> ts, status |-> status, reason |-> reason,
   assets |-> assets, fallbacks |-> 0]

\* A loop that reports a failure twice.
AppendFailedTwice ==
  /\ pc = "resolve2"
  /\ pick.ret = "returned"
  /\ NoGoodSnapshot(pick)
  /\ report_rows' = report_rows \o <<ReportRow(cur.original, "", "failed", "no_good_snapshot", 0),
                                     ReportRow(cur.original, "", "failed", "no_good_snapshot", 0)>>
  /\ pc' = "loop"
  /\ UNCHANGED <<args, records, candidates, idx, pick, cur, files, dirs, css_copied, css_seen,
                 processed, manifest, obs,
                 net, result, enum, limVars>>

\* Lines 819-826: both attempts gave nothing; the failed row, and on to the next
\* candidate.
AppendFailed ==
  /\ pc = "resolve2"
  /\ pick.ret = "returned"
  /\ NoGoodSnapshot(pick)
  /\ report_rows' = Append(report_rows, ReportRow(cur.original, "", "failed",
                                                  "no_good_snapshot", 0))
  /\ pc' = "loop"
  /\ UNCHANGED <<args, records, candidates, idx, pick, cur, files, dirs, css_copied, css_seen,
                 processed, manifest, obs,
                 net, result, enum, limVars>>

\* Line 834: the page's base URL.
BaseOf(parsed) ==
  Either(parsed.scheme, "http") \o "://" \o parsed.netloc \o Either(parsed.path, "/")

BaseUrl(chosen) == BaseOf(urlparse(chosen.original))

\* Lines 828-839: a snapshot was chosen; rewrite the page, collect its assets and
\* write it.  makedirs or open raising ends the run.
WriteHtml ==
  /\ pc \in {"resolve1", "resolve2"}
  /\ pick.ret = "returned"
  /\ ~NoGoodSnapshot(pick)
  /\ LET chosen == pick.chosen[1]
         local_html_rel == ensure_local_path(urlparse(chosen.original).path)
         local_html_path == path_join(args.outdir, local_html_rel)
         base_url == BaseUrl(chosen)
         rw == rewrite_html_and_collect(pick.content, base_url, root_host, args.strip_all_js)
         raises == \/ MakedirsRaises(files, dirname(local_html_path))
                   \/ OpenRaises(dirs \cup DirChain(dirname(local_html_path)), local_html_path)
     IN /\ cur' = [cur EXCEPT !.chosen = pick.chosen, !.html_bytes = pick.content,
                              !.local_html_rel = local_html_rel, !.base_url = base_url,
                              !.html_str = rw.html, !.assets = rw.assets, !.ai = 1]
        /\ dirs' = IF MakedirsRaises(files, dirname(local_html_path)) THEN dirs
                   ELSE dirs \cup DirChain(dirname(local_html_path))
        /\ files' = IF raises THEN files ELSE WriteFile(files, local_html_path, rw.html)
        /\ pc' = IF raises THEN "crashed" ELSE "assets"
  /\ obs' = IF pc = "resolve1"
            THEN [obs EXCEPT !.first = <<[chosen |-> pick.chosen, content |-> pick.content]>>,
                             !.log1 = pick.log,
                             !.steps = IF pc' = "assets" THEN <<"write_html">> ELSE <<>>]
            ELSE [obs EXCEPT !.steps = IF pc' = "assets" THEN <<"write_html">> ELSE <<>>]
  /\ UNCHANGED <<args, records, candidates, idx, pick, css_copied, css_seen, processed,
                 report_rows, manifest,
                 net, result, enum, limVars>>

\* Lines 843-860: one iteration of the asset loop: download_asset, the result
\* appended, a stylesheet noted in css_paths and the first one copied to the
\* standard name.
\* Lines 853-854: open(out_path, "rb") as src, open(standard_css_abs, "wb") as
\* dst, dst.write(src.read()).  Opening dst truncates it before src is read, so
\* when both name one file nothing is left to copy.
CopiedContent(fs, out_path, standard_css_abs) ==
  IF out_path = standard_css_abs THEN <<>> ELSE fs[out_path]

DownloadAsset ==
  /\ pc = "assets"
  /\ cur.ai <= Len(cur.assets)
  /\ \E o1 \in AssetWire :
       \E o2 \in (IF fetch_id(o1).resp.status_code # 200 THEN AssetWire ELSE {o1}) :
         LET a == cur.assets[cur.ai]
             d == download_asset(files, dirs, cur.chosen[1].timestamp, a, args.outdir, o1, o2)
             isCss == ~d.raised /\ IsCss(d.ok, d.ctype, d.local)
             copy == isCss /\ ~css_copied /\ d.out_path \in DOMAIN d.files
             standard_css_abs == path_join(args.outdir, standard_css_rel)
             mkRaises == copy /\ MakedirsRaises(d.files, dirname(standard_css_abs))
             dirs2 == IF copy /\ ~mkRaises THEN d.dirs \cup DirChain(dirname(standard_css_abs))
                      ELSE d.dirs
             copied == copy /\ ~mkRaises /\ ~OpenRaises(dirs2, standard_css_abs)
         IN /\ files' = IF copied THEN WriteFile(d.files, standard_css_abs,
                                                 CopiedContent(d.files, d.out_path,
                                                               standard_css_abs))
                        ELSE d.files
            /\ dirs' = dirs2
            /\ css_copied' = (css_copied \/ copied)
            /\ css_seen' = IF copied THEN css_seen \cup {d.local} ELSE css_seen
            /\ cur' = IF d.raised THEN cur
                      ELSE [cur EXCEPT
                              !.ai = cur.ai + 1,
                              !.asset_results = Append(cur.asset_results,
                                                  [url |-> a, local |-> d.local, ok |-> d.ok,
                                                   content_type |-> d.ctype]),
                              !.css_paths = IF isCss THEN Append(cur.css_paths, d.out_path)
                                            ELSE cur.css_paths]
            /\ obs' = [obs EXCEPT !.assets = Append(obs.assets,
                                      [url |-> a, before |-> files, log |-> d.log,
                                       raised |-> d.raised, local |-> d.local, ok |-> d.ok,
                                       out_path |-> d.out_path, ctype |-> d.ctype,
                                       after |-> d.files]),
                                  !.steps = Append(obs.steps, "download_asset")]
            /\ net' = Fetches(net, d.log)
            /\ pc' = IF d.raised \/ mkRaises THEN "crashed" ELSE "assets"
  /\ UNCHANGED <<args, records, candidates, idx, pick, processed, report_rows, manifest,
                 result, enum, limVars>>

\* Lines 862-907: the stylesheets rewritten in place, the page's stylesheet links
\* retargeted and the page written again, the manifest page and the ok row.
FinishPage ==
  /\ pc = "assets"
  /\ cur.ai > Len(cur.assets)
  /\ LET chosen == cur.chosen[1]
         local_html_path == path_join(args.outdir, cur.local_html_rel)
         files1 == RewriteCssFiles(files, cur.css_paths, cur.base_url, root_host)
         html2 == RetargetStylesheets(cur.html_str, cur.local_html_rel)
         raises == OpenRaises(dirs, local_html_path)
         okAssets == Cardinality({i \in 1..Len(cur.asset_results) : cur.asset_results[i].ok})
     IN /\ files' = IF raises THEN files1 ELSE WriteFile(files1, local_html_path, html2)
        /\ cur' = [cur EXCEPT !.html_str = html2]
        /\ manifest' = IF raises THEN manifest
                       ELSE Append(manifest, [original |-> chosen.original,
                                              timestamp |-> chosen.timestamp,
                                              local |-> cur.local_html_rel,
                                              assets |-> cur.asset_results])
        /\ report_rows' = IF raises THEN report_rows
                          ELSE Append(report_rows, ReportRow(chosen.original, chosen.timestamp,
                                                             "ok", "", okAssets))
        /\ processed' = IF raises THEN processed ELSE processed + 1
        /\ obs' = [obs EXCEPT !.steps = obs.steps
                                          \o [i \in 1..Len(cur.css_paths) |-> "rewrite_css"]
                                          \o <<"retarget">>
                                          \o (IF raises THEN <<>>
                                              ELSE <<"write_html", "ok_entry">>)]
        /\ pc' = IF raises THEN "crashed"
                 ELSE IF args.max # 0 /\ processed + 1 >= args.max THEN "reports"
                 ELSE "loop"
  /\ UNCHANGED <<args, records, candidates, idx, pick, dirs, css_copied, css_seen,
                 net, result, enum, limVars>>

\* The loop ran out of candidates (line 779): on to the reports.
EndLoop ==
  /\ pc = "loop"
  /\ idx = Len(candidates)
  /\ pc' = "reports"
  /\ UNCHANGED <<args, records, candidates, idx, pick, cur, files, dirs, css_copied, css_seen,
                 processed, report_rows, manifest, obs,
                 net, result, enum, limVars>>

Next ==
  \/ BuildCandidates
  \/ StartCandidate
  \/ PickIter
  \/ QueryHistory
  \/ AppendFailed
  \/ WriteHtml
  \/ DownloadAsset
  \/ FinishPage
  \/ EndLoop

Spec == Init /\ [][Next]_vars

\* ------------------------------------------------------------------------
\* latest_per_original called on its own
\* ------------------------------------------------------------------------

\* Rows of every kind the builder filters on: a key seen at three times and with
\* a query string, a timestamp that is short, one that is missing, a URL that is
\* missing, robots.txt and a row that is not HTML.
BuildPool ==
  { Row(T20, UrlA, "text/html"), Row(T19, UrlA, "text/html"), Row(T21, UrlA, "text/html"),
    Row(T19, UrlAQ, "Text/HTML; charset=utf-8"), Row("2019", UrlAB, "text/html"),
    Row("", UrlA, "text/html"), Row(T19, "http://e.c/robots.txt", "text/html"),
    Row(T20, UrlAB, "application/pdf"), Row(T20, "", "text/html") }

BuildArgs ==
  { Args(c, pre, nonhtml, ignoreq, 0) :
      c \in {Cutoff2020, Cutoff2019}, pre \in {"", "/a/"}, nonhtml \in BOOLEAN,
      ignoreq \in BOOLEAN }

InitBuild ==
  \E a \in BuildArgs : \E recs \in SeqsUpTo(BuildPool, MaxRows) : InitAt(a, recs, "call")

\* candidates = latest_per_original(records, cutoff_ts, path_prefix, ...)
CallLatest ==
  /\ pc = "call"
  /\ candidates' = latest_per_original(records, args.cutoff_ts, args.path_prefix,
                                       args.include_nonhtml, args.ignore_query_params)
  /\ pc' = "called"
  /\ UNCHANGED <<args, records, idx, pick, cur, files, dirs, css_copied, css_seen, processed,
                 report_rows, manifest, obs,
                 net, result, enum, limVars>>

NextBuild == CallLatest

SpecBuild == InitBuild /\ [][NextBuild]_vars

\* ------------------------------------------------------------------------
\* pick_best_snapshot called on its own
\* ------------------------------------------------------------------------

UrlAS == "https://e.c/a"

\* Captures of one page: two times, and one second captured under two schemes.
PickPool ==
  { Row(T19, UrlA, "text/html"), Row(T20, UrlA, "text/html"), Row(T20, UrlAS, "text/html") }

PickArgs == { Args(Cutoff2020, "", nonhtml, FALSE, 0) : nonhtml \in BOOLEAN }

InitPick ==
  \E a \in PickArgs : \E recs \in SeqsUpTo(PickPool, MaxRows) : InitAt(a, recs, "pick_call")

\* pick_best_snapshot(records, session, limiter, include_nonhtml)
CallPick ==
  /\ pc = "pick_call"
  /\ pick' = StartPick(records)
  /\ pc' = "pick"
  /\ UNCHANGED <<args, records, candidates, idx, cur, files, dirs, css_copied, css_seen,
                 processed, report_rows, manifest, obs,
                 net, result, enum, limVars>>

PickStep ==
  /\ pc = "pick"
  /\ PickIterOn(PageWire)

NextPick ==
  \/ CallPick
  \/ PickStep

SpecPick == InitPick /\ [][NextPick]_vars

\* ------------------------------------------------------------------------
\* RateLimiter.take called from several threads
\* ------------------------------------------------------------------------

MaxClock == 3

\* --burst and --rps as the command line can give them: below the floors, at
\* them and above them.
BurstPool == {0, 1, 2}

RpsPool == {0, 1, 2}

TakeCosts == {1, 2}

InitLimiter ==
  \E b \in BurstPool : \E r \in RpsPool :
    InitAt([Args(Cutoff2020, "", FALSE, FALSE, 0) EXCEPT !.burst = b, !.rps = r], <<>>, "limiter")

\* A thread calls take(n) and reaches "with self.lock" (line 56).
Call(t) ==
  /\ threads[t].pc = "idle"
  /\ \E n \in TakeCosts : threads' = [threads EXCEPT ![t] = [Idle EXCEPT !.pc = "acquire", !.n = n]]
  /\ UNCHANGED <<args, records, candidates, pc, idx, pick, cur, files, dirs, css_copied, css_seen,
                 processed, report_rows, manifest, obs, net, result, enum, limiter, clock,
                 granted>>

\* A thread that enters the block whoever holds the lock.
EnterUnguarded(t) ==
  /\ threads[t].pc = "acquire"
  /\ limiter' = [limiter EXCEPT !.lock = t]
  /\ threads' = [threads EXCEPT ![t].pc = "refill"]
  /\ UNCHANGED <<args, records, candidates, pc, idx, pick, cur, files, dirs, css_copied, css_seen,
                 processed, report_rows, manifest, obs, net, result, enum, clock, granted>>

\* Line 56: the lock is free and the thread takes it.
Enter(t) ==
  /\ threads[t].pc = "acquire"
  /\ limiter.lock = ""
  /\ limiter' = [limiter EXCEPT !.lock = t]
  /\ threads' = [threads EXCEPT ![t].pc = "refill"]
  /\ UNCHANGED <<args, records, candidates, pc, idx, pick, cur, files, dirs, css_copied, css_seen,
                 processed, report_rows, manifest, obs, net, result, enum, clock, granted>>

\* Line 60: the balance after the refill.
Refilled(lim, now) == MinOf(lim.capacity, lim.tokens + (now - lim.t0) * lim.fill)

\* Lines 57-68 up to the sleep: the refill, then either the debit, the end of
\* the block and the return, or the start of the sleep of (n - tokens) / fill.
Refill(t) ==
  /\ threads[t].pc = "refill"
  /\ IF Refilled(limiter, clock) < threads[t].n
     THEN /\ limiter' = [limiter EXCEPT !.t0 = clock, !.tokens = Refilled(limiter, clock)]
          /\ threads' = [threads EXCEPT ![t].pc = "sleeping", ![t].since = clock,
                                        ![t].need = threads[t].n - Refilled(limiter, clock)]
          /\ granted' = granted
     ELSE /\ limiter' = [limiter EXCEPT !.t0 = clock,
                                        !.tokens = Refilled(limiter, clock) - threads[t].n,
                                        !.lock = ""]
          /\ threads' = [threads EXCEPT ![t] = Idle]
          /\ granted' = granted + threads[t].n
  /\ UNCHANGED <<args, records, candidates, pc, idx, pick, cur, files, dirs, css_copied, css_seen,
                 processed, report_rows, manifest, obs, net, result, enum, clock>>

\* Lines 64-66: time.sleep has lasted sleep_time or longer; the balance is set
\* to zero, t0 to now, the block ends and take() returns.
Wake(t) ==
  /\ threads[t].pc = "sleeping"
  /\ limiter.fill * (clock - threads[t].since) >= threads[t].need
  /\ limiter' = [limiter EXCEPT !.tokens = 0, !.t0 = clock, !.lock = ""]
  /\ threads' = [threads EXCEPT ![t] = Idle]
  /\ granted' = granted + threads[t].n
  /\ UNCHANGED <<args, records, candidates, pc, idx, pick, cur, files, dirs, css_copied, css_seen,
                 processed, report_rows, manifest, obs, net, result, enum, clock>>

\* Time passes.
Tick ==
  /\ pc = "limiter"
  /\ clock < MaxClock
  /\ clock' = clock + 1
  /\ UNCHANGED <<args, records, candidates, pc, idx, pick, cur, files, dirs, css_copied, css_seen,
                 processed, report_rows, manifest, obs, net, result, enum, limiter, threads,
                 granted>>

Calls == \E t \in Threads : Call(t)

Enters == \E t \in Threads : Enter(t)

Refills == \E t \in Threads : Refill(t)

Wakes == \E t \in Threads : Wake(t)

NextLimiter ==
  \/ Calls
  \/ Enters
  \/ Refills
  \/ Wakes
  \/ Tick

SpecLimiter == InitLimiter /\ [][NextLimiter]_vars

\* ------------------------------------------------------------------------
\* cdx_query_variants called on its own
\* ------------------------------------------------------------------------

\* Line 167: _cdx_multi_endpoint turns to the alternate endpoint below this many
\* rows.
MinRows == 10

\* One request of _cdx as an observer of the wire sees it: the endpoint, the
\* url and matchType parameters and the number of rows that came back.
Query(endpoint, url, matchType, rows) ==
  [endpoint |-> endpoint, url |-> url, matchType |-> matchType, rows |-> Len(rows)]

\* Lines 154-170: _cdx_multi_endpoint(session, params) with the three answers
\* of the archive; the requests it sends and the rows it returns.  No function
\* of the program calls it.
cdx_multi_endpoint(url, matchType, prefixed, primary, alternate) ==
  [log |-> (IF matchType = "" THEN <<Query("CDX", url, "prefix", prefixed)>> ELSE <<>>)
           \o <<Query("CDX", url, matchType, primary)>>
           \o (IF Len(IF matchType = "" THEN prefixed \o primary ELSE primary) < MinRows
               THEN <<Query("CDX_ALTERNATE", url, matchType, alternate)>> ELSE <<>>),
   results |-> (IF matchType = "" THEN prefixed \o primary ELSE primary)
               \o (IF Len(IF matchType = "" THEN prefixed \o primary ELSE primary) < MinRows
                   THEN alternate ELSE <<>>)]

\* Lines 246-259: the forms of the domain that are queried.
DomainVariants(domain) ==
  {domain, Lower(domain)}
    \cup (IF StartsWith(domain, "www.") THEN {SubSeq(domain, 5, Len(domain))}
          ELSE {"www." \o domain})
    \cup (IF StartsWith(Lower(domain), "www.") THEN {} ELSE {"www." \o Lower(domain)})

\* What _cdx returns for one query: nothing (also on any failure), one row, or
\* as many rows as the threshold.
TenRows == [i \in 1..MinRows |-> Row(T19, "http://e.c/p" \o SubSeq(Digits, i, i), "text/html")]

AnswerPool == { <<>>, <<Row(T20, UrlA, "text/html")>>, TenRows }

\* What check_availability_api returns.
AvailablePool == { <<>>, <<Row(T19, UrlAB, "text/html")>>, <<Row(T19, UrlA, "text/html")>> }

\* Line 312: the rows not after the cutoff.
NotAfter(cutoff, r) == StrLessEq(r.timestamp, cutoff)

FilteredByDate(rows, cutoff) == SelectSeq(rows, LAMBDA r : NotAfter(cutoff, r))

\* Lines 318-326: the latest row of each URL.
RECURSIVE LatestPerUrl(_, _)
LatestPerUrl(latest, rows) ==
  IF rows = <<>> THEN latest
  ELSE IF Head(rows).original = "" \/ Head(rows).timestamp = ""
  THEN LatestPerUrl(latest, Tail(rows))
  ELSE IF ~DictHas(latest, Head(rows).original)
          \/ StrGreater(Head(rows).timestamp, DictGet(latest, Head(rows).original).timestamp)
  THEN LatestPerUrl(DictPut(latest, Head(rows).original, Head(rows)), Tail(rows))
  ELSE LatestPerUrl(latest, Tail(rows))

\* Lines 339-342: the rows of the availability API whose URL the index did not
\* give.
RECURSIVE AddAvailable(_, _, _)
AddAvailable(uniq, latest, avail) ==
  IF avail = <<>> THEN uniq
  ELSE IF Head(avail).original # "" /\ ~DictHas(latest, Head(avail).original)
  THEN AddAvailable(Append(uniq, Head(avail)), latest, Tail(avail))
  ELSE AddAvailable(uniq, latest, Tail(avail))

\* Lines 332-350 on the dictionary of the latest rows.
UniqFrom(latest, avail) ==
  IF Len(latest) < MinUniq THEN AddAvailable(DictValues(latest), latest, avail)
  ELSE DictValues(latest)

EnumDomains == {"e.c", "www.e.c"}

InitEnum ==
  /\ \E a \in {Args(Cutoff2020, "", FALSE, FALSE, 0), Args(Cutoff2019, "", FALSE, FALSE, 0)} :
       InitAt(a, <<>>, "enum")

\* Lines 234-262: cdx_query_variants(session, domain, cutoff_ts, subdomains) is
\* called and builds domain_variants.
StartEnum ==
  /\ pc = "enum"
  /\ enum.at = "idle"
  /\ \E d \in EnumDomains : \E sub \in BOOLEAN :
       enum' = [NoEnum EXCEPT !.at = "loop", !.domain = d, !.subdomains = sub,
                              !.todo = DomainVariants(d)]
  /\ UNCHANGED <<args, records, candidates, pc, idx, pick, cur, files, dirs, css_copied, css_seen,
                 processed, report_rows, manifest, obs, net, result, limVars>>

\* Lines 269-302: one iteration of the loop over domain_variants (a set, so in
\* any order): the wildcard query and the matchType query, both sent by _cdx to
\* its default endpoint.
QueryVariant ==
  /\ enum.at = "loop"
  /\ \E d \in enum.todo : \E a1 \in AnswerPool : \E a2 \in AnswerPool :
       enum' = [enum EXCEPT
                  !.todo = enum.todo \ {d},
                  !.log = enum.log \o
                          <<Query("CDX", d \o "*", "", a1),
                            Query("CDX", d \o "/*",
                                  IF enum.subdomains THEN "domain" ELSE "host", a2)>>,
                  !.all_urls = enum.all_urls \o a1 \o a2]
  /\ net' = Get(Get(net, "_cdx"), "_cdx")
  /\ UNCHANGED <<args, records, candidates, pc, idx, pick, cur, files, dirs, css_copied, css_seen,
                 processed, report_rows, manifest, obs, result, limVars>>

\* Lines 312-350: the loop is over; the rows are filtered by date, reduced to
\* the latest per URL, completed from the availability API when they are few,
\* and returned.
FinishEnum ==
  /\ enum.at = "loop"
  /\ enum.todo = {}
  /\ \E avail \in AvailablePool :
       result' = UniqFrom(LatestPerUrl(<<>>, FilteredByDate(enum.all_urls, args.cutoff_ts)),
                          avail)
  /\ net' = IF Len(LatestPerUrl(<<>>, FilteredByDate(enum.all_urls, args.cutoff_ts))) < MinUniq
            THEN Get(net, "check_availability_api") ELSE net
  /\ enum' = [enum EXCEPT !.at = "done"]
  /\ UNCHANGED <<args, records, candidates, pc, idx, pick, cur, files, dirs, css_copied, css_seen,
                 processed, report_rows, manifest, obs, limVars>>

NextEnum ==
  \/ StartEnum
  \/ QueryVariant
  \/ FinishEnum

SpecEnum == InitEnum /\ [][NextEnum]_vars

\* ------------------------------------------------------------------------
\* main() on a site that keeps a stylesheet where the run keeps its own
\* ------------------------------------------------------------------------

UrlC == "http://e.c/c"

\* A page that links /s.css and one that links the site's own
\* /assets/stylesheets/application.css.
PageS == <<Item("html", "", ""), Item("link", "stylesheet", "/s.css")>>

PageC == <<Item("html", "", ""), Item("link", "stylesheet", "/" \o standard_css_rel)>>

SheetPageWire ==
  { Returned(Resp(200, "", "text/html", PageS)),
    Returned(Resp(200, "", "text/html", PageC)),
    Returned(Resp(200, "", "text/html", <<>>)) }

SheetRows == { Row(T20, UrlA, "text/html"), Row(T20, UrlC, "text/html") }

InitSheets == InitMain(Args(Cutoff2020, "", FALSE, FALSE, 0))

BuildSheets == BuildFrom(SheetRows)

PickIterSheets ==
  /\ pc \in {"resolve1", "resolve2"}
  /\ PickIterOn(SheetPageWire)

NextSheets ==
  \/ BuildSheets
  \/ StartCandidate
  \/ PickIterSheets
  \/ QueryHistory
  \/ AppendFailed
  \/ WriteHtml
  \/ DownloadAsset
  \/ FinishPage
  \/ EndLoop

SpecSheets == InitSheets /\ [][NextSheets]_vars

\* ------------------------------------------------------------------------
\* ensure_local_path called on its own
\* ------------------------------------------------------------------------

\* URL paths: no, one or several leading separators, segments with and without
\* an extension or an empty segment, and an end that is plain, a separator, a
\* query string or a fragment.
PathPool ==
  { pre \o body \o suf :
      pre \in {"", "/", "//", "///"},
      body \in {"", "a", "a/b", "a.css", "a//b"},
      suf \in {"", "/", "?q=1", "#f", "/?q#f", "#f?q"} }

DefaultArgs == Args(Cutoff2020, "", FALSE, FALSE, 0)

InitLocalPath == \E p \in PathPool : InitAt(DefaultArgs, p, "path_call")

\* local = ensure_local_path(path), and the local path download_asset computes
\* for the URL with that path (line 619).
CallLocalPath ==
  /\ pc = "path_call"
  /\ result' = [local |-> ensure_local_path(records),
                asset |-> download_asset(<<>>, {args.outdir}, T20, "http://e.c" \o records,
                                         args.outdir, Returned(Resp(404, "", "", <<>>)),
                                         Returned(Resp(404, "", "", <<>>))).local]
  /\ pc' = "path_called"
  /\ UNCHANGED <<args, records, candidates, idx, pick, cur, files, dirs, css_copied, css_seen,
                 processed, report_rows, manifest, obs, net, enum, limVars>>

NextLocalPath == CallLocalPath

SpecLocalPath == InitLocalPath /\ [][NextLocalPath]_vars

\* ------------------------------------------------------------------------
\* The stylesheet rewrite of main() called on its own
\* ------------------------------------------------------------------------

\* url(...) occurrences: unquoted, single-quoted and double-quoted; a data: URI,
\* a fragment, relative and root-relative references, the root host, a
\* subdomain, a host that ends with the root host's text, a third party.
CssRefs ==
  { "data:x", "#f", "i.png", "/img/i.png", "http://e.c/i.png", "http://s.e.c/i.png",
    "http://note.c/i.png", "http://cdn.x/i.png" }

CssItems == { Item("url", q, ref) : q \in {"", "'", "\""}, ref \in CssRefs }

\* --outdir, and the local paths of stylesheets at two depths.
OutdirPool == {"out", ".", "out/site"}

CssLocals == {"s.css", "css/s.css"}

InitCss ==
  \E it \in CssItems : \E base \in {UrlA, UrlAB} : \E o \in OutdirPool : \E l \in CssLocals :
    InitAt([DefaultArgs EXCEPT !.outdir = o],
           [item |-> it, base_url |-> base, alocal |-> l], "css_call")

\* Lines 863-873 for one stylesheet that download_asset stored at
\* os.path.join(outdir, alocal): read, rewritten with
\* out_css_dir = os.path.dirname(css_path), written back.
CallRewriteCss ==
  /\ pc = "css_call"
  /\ files' = RewriteCssFile(WriteFile(files, path_join(args.outdir, records.alocal),
                                       <<records.item>>),
                             path_join(args.outdir, records.alocal), records.base_url,
                             root_host)
  /\ result' = files'[path_join(args.outdir, records.alocal)][1]
  /\ pc' = "css_called"
  /\ UNCHANGED <<args, records, candidates, idx, pick, cur, dirs, css_copied, css_seen,
                 processed, report_rows, manifest, obs, net, enum, limVars>>

NextCss == CallRewriteCss

SpecCss == InitCss /\ [][NextCss]_vars

\* ------------------------------------------------------------------------
\* rewrite_html_and_collect called on its own
\* ------------------------------------------------------------------------

\* Sources of a script element: none, relative, root-relative, the root host
\* with and without a port and in capitals, a subdomain written in full and
\* scheme-relative, a host that ends with the root host's text, a third party.
ScriptSrcs ==
  { "", "app.js", "/app.js", "http://e.c/app.js", "http://e.c:80/app.js", "http://E.C/app.js",
    "http://s.e.c/app.js", "//s.e.c/app.js", "http://note.c/app.js", "http://cdn.x/app.js" }

HtmlItems == { Item(tag, "", src) : tag \in {"script", "img"}, src \in ScriptSrcs }

\* Base URLs of pages: built at line 834 from the capture's original URL, which
\* the index may give with the port.
HtmlBases == { UrlA, "http://e.c:80/a", "http://www.e.c/a/b" }

InitHtml ==
  \E it \in HtmlItems : \E base \in HtmlBases : \E strip \in BOOLEAN :
    InitAt([DefaultArgs EXCEPT !.strip_all_js = strip],
           [item |-> it, base_url |-> base], "html_call")

\* html_str, assets = rewrite_html_and_collect(html_bytes, base_url, root_host,
\* remove_all_scripts=args.strip_all_js)
CallRewriteHtml ==
  /\ pc = "html_call"
  /\ result' = rewrite_html_and_collect(<<records.item>>, records.base_url, root_host,
                                        args.strip_all_js)
  /\ pc' = "html_called"
  /\ UNCHANGED <<args, records, candidates, idx, pick, cur, files, dirs, css_copied, css_seen,
                 processed, report_rows, manifest, obs, net, enum, limVars>>

NextHtml == CallRewriteHtml

SpecHtml == InitHtml /\ [][NextHtml]_vars

\* ------------------------------------------------------------------------
\* main() on candidates that differ in query string, scheme or host only
\* ------------------------------------------------------------------------

UrlAW == "http://www.e.c/a"

\* One page of the site as the capture index lists it: with and without a
\* query string, under both schemes and under the www host.
SamePathRows ==
  { Row(T20, UrlA, "text/html"), Row(T20, UrlAQ, "text/html"),
    Row(T20, UrlAS, "text/html"), Row(T20, UrlAW, "text/html") }

SamePathWire ==
  { Returned(Resp(200, "", "text/html", PageB)),
    Returned(Resp(200, "", "text/html", PageS)),
    Returned(Resp(404, "", "text/html", PageB)) }

\* With and without --ignore-query-params.
SamePathArgs ==
  { Args(Cutoff2020, "", FALSE, FALSE, 0), Args(Cutoff2020, "", FALSE, TRUE, 0) }

InitSamePath == \E a \in SamePathArgs : InitMain(a)

BuildSamePath == BuildFrom(SamePathRows)

PickIterSamePath ==
  /\ pc \in {"resolve1", "resolve2"}
  /\ PickIterOn(SamePathWire)

NextSamePath ==
  \/ BuildSamePath
  \/ StartCandidate
  \/ PickIterSamePath
  \/ QueryHistory
  \/ AppendFailed
  \/ WriteHtml
  \/ DownloadAsset
  \/ FinishPage
  \/ EndLoop

SpecSamePath == InitSamePath /\ [][NextSamePath]_vars

\* ------------------------------------------------------------------------
\* Properties of latest_per_original
\* ------------------------------------------------------------------------

\* The key a record is filed under with the run's flags.
KeyOf(r) == url_key(r.original, args.ignore_query_params)

\* The record passes every filter of the builder, the cutoff included.
Survives(r) == ~Skipped(r, args.cutoff_ts, args.path_prefix, args.include_nonhtml)

\* C1: latest_per_original returns at most one record per key (the raw original
\* URL, or scheme+host+path when query normalization is on); the record returned
\* for a key is an input record that survives the filters, is not after the
\* cutoff, and has the greatest timestamp among the surviving input records of
\* that key; every key with a surviving record is returned.
C1_LatestPerKey ==
  pc = "called" =>
    /\ \A i, j \in 1..Len(candidates) : KeyOf(candidates[i]) = KeyOf(candidates[j]) => i = j
    /\ \A i \in 1..Len(candidates) :
         /\ \E j \in 1..Len(records) : records[j] = candidates[i] /\ Survives(records[j])
         /\ StrLessEq(candidates[i].timestamp, args.cutoff_ts)
         /\ \A j \in 1..Len(records) :
              Survives(records[j]) /\ KeyOf(records[j]) = KeyOf(candidates[i])
                => StrLessEq(records[j].timestamp, candidates[i].timestamp)
    /\ \A j \in 1..Len(records) :
         Survives(records[j]) => \E i \in 1..Len(candidates) : KeyOf(candidates[i]) = KeyOf(records[j])

\* Two surviving records with different URLs and one key, the newer one second:
\* it has replaced the older one.
C1_NewerReplacesOlder ==
  /\ pc = "called"
  /\ args.ignore_query_params
  /\ Len(records) = 2
  /\ records[1].original # records[2].original
  /\ Survives(records[1])
  /\ Survives(records[2])
  /\ StrLess(records[1].timestamp, records[2].timestamp)
  /\ candidates = <<records[2]>>

\* C8: latest_per_original discards every record whose timestamp is missing, is
\* not exactly 14 digits or is after the cutoff: no such record is in its output.
C8_OnlyValidTimestamps ==
  pc = "called" =>
    \A i \in 1..Len(candidates) :
      /\ IsTs14(candidates[i].timestamp)
      /\ StrLessEq(candidates[i].timestamp, args.cutoff_ts)

\* ------------------------------------------------------------------------
\* Properties of pick_best_snapshot
\* ------------------------------------------------------------------------

\* The capture the i-th fetch of the running call asked for.
FetchedCapture(i) == [timestamp |-> pick.log[i].timestamp, original |-> pick.log[i].original]

SameCapture(r, c) == r.timestamp = c.timestamp /\ r.original = c.original

\* The response of the i-th fetch passes the three checks.
UsableAt(i) == Usable(pick.log[i].resp, args.include_nonhtml)

\* The call has returned a capture.
PickedOne == pick.ret = "returned" /\ pick.chosen # <<>>

\* The status the header X-Archive-Orig-status of the i-th response leads with
\* is a number outside 200-299.
OrigStatusBad(i) ==
  /\ OrigCode(pick.log[i].resp) # <<>>
  /\ ~(200 <= OrigCode(pick.log[i].resp)[1] /\ OrigCode(pick.log[i].resp)[1] < 300)

\* C2: pick_best_snapshot never returns a capture whose response carries an
\* X-Archive-Orig-status outside 200-299, whatever the outer status of the
\* fetch; the response of the returned capture is the last one fetched.
C2_OrigStatusHonoured == PickedOne => Len(pick.log) > 0 /\ ~OrigStatusBad(Len(pick.log))

\* A capture answered with outer status 200 and original status 404 was passed
\* over, and the next one, with original status 200, returned.
C2_Outer200Orig404Skipped ==
  /\ PickedOne
  /\ Len(pick.log) = 2
  /\ pick.log[1].resp.status_code = 200
  /\ looks_html(pick.log[1].resp)
  /\ OrigCode(pick.log[1].resp) = <<404>>
  /\ OrigCode(pick.log[2].resp) = <<200>>

\* C3: within one call the captures are fetched in descending timestamp order
\* (no fetch is of a capture newer than the one fetched before it; captures of
\* one second follow each other) whatever the order of the input list, each
\* supplied capture at most once; fetching stops at the first usable
\* capture, which is returned with its body, so every capture newer than the
\* returned one was fetched and found unusable and none older was fetched; the
\* result is none exactly when every supplied capture was fetched and none was
\* usable.
C3_NewestFirst ==
  pc = "pick" =>
    /\ \A i \in 1..(Len(pick.log) - 1) :
         StrLessEq(pick.log[i + 1].timestamp, pick.log[i].timestamp)
    /\ \A i \in 1..Len(pick.log) :
         Cardinality({j \in 1..Len(pick.log) : FetchedCapture(j) = FetchedCapture(i)})
           <= Cardinality({j \in 1..Len(records) : SameCapture(records[j], FetchedCapture(i))})
    /\ \A i \in 1..(Len(pick.log) - 1) : ~UsableAt(i)
    /\ pick.ret = "running" => Len(pick.log) < Len(records) /\ \A i \in 1..Len(pick.log) : ~UsableAt(i)
    /\ PickedOne =>
         /\ Len(pick.log) > 0
         /\ UsableAt(Len(pick.log))
         /\ SameCapture(pick.chosen[1], FetchedCapture(Len(pick.log)))
         /\ pick.content = pick.log[Len(pick.log)].resp.content
         /\ \A j \in 1..Len(records) :
              StrGreater(records[j].timestamp, pick.chosen[1].timestamp)
                => \E i \in 1..(Len(pick.log) - 1) : SameCapture(records[j], FetchedCapture(i))
         /\ \A i \in 1..Len(pick.log) :
              StrLessEq(pick.chosen[1].timestamp, pick.log[i].timestamp)
    /\ (pick.ret = "returned" /\ pick.chosen = <<>>) =>
         /\ Len(pick.log) = Len(records)
         /\ \A i \in 1..Len(pick.log) : ~UsableAt(i)

\* A list given oldest first: the newer capture was fetched first and found
\* unusable, the older one returned.
C3_OlderReturnedAfterNewer ==
  /\ pc = "pick"
  /\ Len(records) = 2
  /\ StrLess(records[1].timestamp, records[2].timestamp)
  /\ PickedOne
  /\ Len(pick.log) = 2
  /\ pick.chosen[1] = records[1]

\* C9: when the identity-mode fetch of a capture fails with an SSLError, the
\* resolver makes one fallback-mode fetch of the same capture next.
C9_SslErrorFallsBack ==
  \A i \in 1..Len(pick.log) :
    (pick.log[i].mode = "id" /\ pick.log[i].exc = "SSLError") =>
      /\ i < Len(pick.log)
      /\ pick.log[i + 1].mode = "if"
      /\ FetchedCapture(i + 1) = FetchedCapture(i)

\* ------------------------------------------------------------------------
\* Properties of a run of main()
\* ------------------------------------------------------------------------

\* The loop has just appended the row of candidate idx.
RowAppended == pc \in {"loop", "reports"} /\ idx > 0 /\ Len(report_rows) = idx

JustFailed == RowAppended /\ pc = "loop" /\ report_rows[idx].status = "failed"

JustOk == RowAppended /\ report_rows[idx].status = "ok"

\* C4: the history query is issued only when the first attempt returned no
\* capture, and a failed row is appended only after a first attempt and a
\* second attempt, on the queried history, that both returned no capture.
C4_HistoryOnlyAfterNoCapture ==
  /\ obs.queries > 0 => obs.first # <<>> /\ obs.first[1].chosen = <<>>
  /\ JustFailed =>
       /\ obs.queries = 1
       /\ obs.first # <<>>
       /\ obs.first[1].chosen = <<>>
       /\ pick.ret = "returned"
       /\ pick.chosen = <<>>

\* The shape of a row: ok with a timestamp, or failed with no_good_snapshot.
RowShape(row) ==
  \/ row.status = "ok" /\ row.timestamp # "" /\ row.reason = ""
  \/ row.status = "failed" /\ row.timestamp = "" /\ row.reason = "no_good_snapshot"

\* Every candidate the loop is done with has its one row, in order.
RowsMatchCandidates ==
  /\ pc \in {"loop", "reports"} => Len(report_rows) = idx
  /\ pc \in {"resolve1", "resolve2", "assets", "crashed"} => Len(report_rows) = idx - 1
  /\ \A i \in 1..Len(report_rows) :
       /\ report_rows[i].original = candidates[i].original
       /\ RowShape(report_rows[i])

\* A step leaves the rows as they are or appends one row for the candidate in
\* hand: ok with the chosen capture's timestamp after the second HTML write,
\* failed after the second attempt returned nothing.
RowsAppendOnly ==
  \/ report_rows' = report_rows
  \/ /\ Len(report_rows') = Len(report_rows) + 1
     /\ SubSeq(report_rows', 1, Len(report_rows)) = report_rows
     /\ Len(report_rows') = idx
     /\ \/ /\ report_rows'[idx].status = "ok"
           /\ pc = "assets"
           /\ report_rows'[idx].timestamp = cur.chosen[1].timestamp
           /\ manifest' = Append(manifest, manifest'[Len(manifest')])
           /\ manifest'[Len(manifest')].original = report_rows'[idx].original
        \/ /\ report_rows'[idx].status = "failed"
           /\ pc = "resolve2"
           /\ NoGoodSnapshot(pick)
           /\ manifest' = manifest

NonHtmlType(resp) == resp.content_type # "" /\ ~Contains(Lower(resp.content_type), "html")

AllNonHtml(log) == \A i \in 1..Len(log) : NonHtmlType(log[i].resp)

TreeUntouched == files = obs.files0 /\ dirs = obs.dirs0

\* C6: when non-HTML content is not allowed and every capture fetched for a URL,
\* the candidate and its history, answers with a non-HTML content type, both
\* attempts return nothing, the candidate gets the failed row with reason
\* no_good_snapshot, and the mirror tree is the same at that row as at the
\* start of the candidate's processing.
C6_NonHtmlLeavesTreeAlone ==
  ~args.include_nonhtml =>
    /\ (pc \in {"resolve1", "resolve2"} /\ pick.ret = "returned"
        /\ AllNonHtml(obs.log1 \o pick.log))
         => NoGoodSnapshot(pick) /\ TreeUntouched
    /\ JustFailed => report_rows[idx].reason = "no_good_snapshot" /\ TreeUntouched

\* A candidate and a capture of its history both answered as PDF, and the
\* failed row is in.
C6_PdfEverywhereFailed ==
  /\ ~args.include_nonhtml
  /\ JustFailed
  /\ Len(obs.log1) = 1
  /\ Len(pick.log) > 0
  /\ AllNonHtml(obs.log1 \o pick.log)
  /\ \A i \in 1..Len(pick.log) : pick.log[i].resp.status_code = 200
  /\ obs.log1[1].resp.status_code = 200
  /\ \E p \in DOMAIN obs.files0 : TRUE

FinalResp(e) == e.log[Len(e.log)].resp

DownloadEffect(e) ==
  IF FinalResp(e).status_code = 200
  THEN /\ e.ok
       /\ e.out_path \in DOMAIN e.after
       /\ e.after[e.out_path] = FinalResp(e).content
       /\ \A q \in (DOMAIN e.before \cup DOMAIN e.after) \ {e.out_path} :
            q \in DOMAIN e.before /\ q \in DOMAIN e.after /\ e.after[q] = e.before[q]
  ELSE ~e.ok /\ e.after = e.before

Inside == {t \in Threads : threads[t].pc \in {"refill", "sleeping"}}

\* C11: under every interleaving of the callers of take(n), at most one caller
\* is inside the refill-and-debit block and it holds the lock; the balance stays
\* between 0 and the burst ceiling; and the tokens handed out by the calls that
\* have returned, together with the balance left, never exceed the ceiling plus
\* the rate times the time elapsed since construction.
C11_LimiterSafe ==
  /\ Cardinality(Inside) <= 1
  /\ \A t \in Inside : limiter.lock = t
  /\ limiter.tokens >= 0
  /\ limiter.tokens <= limiter.capacity
  /\ granted + limiter.tokens <= limiter.capacity + limiter.fill * limiter.t0
  /\ limiter.t0 <= clock
  /\ granted <= limiter.capacity + limiter.fill * clock

\* One caller sleeps inside the block while the other waits for the lock, and
\* more than the ceiling has already been handed out.
C11_SleeperHoldsLock ==
  /\ \E t, u \in Threads : threads[t].pc = "sleeping" /\ threads[u].pc = "acquire"
  /\ granted > limiter.capacity

\* ------------------------------------------------------------------------
\* Properties of the requests
\* ------------------------------------------------------------------------

\* C12: every request sent during a run (index queries, availability lookups,
\* history queries, page fetches, asset fetches) comes after a limiter.take() of
\* its own: no function has sent a request that no take() preceded.
C12_EveryRequestLimited == net.unlimited = {}

\* ------------------------------------------------------------------------
\* Properties of cdx_query_variants
\* ------------------------------------------------------------------------

\* The i-th request went to the primary endpoint and returned fewer rows than
\* the threshold.
FewFromPrimary(i) == enum.log[i].endpoint = "CDX" /\ enum.log[i].rows < MinRows

\* C13: when cdx_query_variants has returned, every query of the primary
\* endpoint that gave fewer rows than the threshold has been followed by a query
\* of the alternate endpoint with the same url and matchType.
C13_AlternateQueried ==
  enum.at = "done" =>
    \A i \in 1..Len(enum.log) :
      FewFromPrimary(i) =>
        \E j \in (i + 1)..Len(enum.log) :
          /\ enum.log[j].endpoint = "CDX_ALTERNATE"
          /\ enum.log[j].url = enum.log[i].url
          /\ enum.log[j].matchType = enum.log[i].matchType

\* ------------------------------------------------------------------------
\* Properties of the order of main()'s steps
\* ------------------------------------------------------------------------

IsPrefix(a, b) == Len(a) <= Len(b) /\ SubSeq(b, 1, Len(a)) = a

\* The steps of a resolved candidate with its assets and stylesheets, in the
\* claimed order.
StepsOf(assets, css_paths) ==
  <<"write_html">> \o [i \in 1..Len(assets) |-> "download_asset"]
    \o [i \in 1..Len(css_paths) |-> "rewrite_css"] \o <<"retarget", "write_html", "ok_entry">>

PagePath == path_join(args.outdir, cur.local_html_rel)

\* During the asset loop the first HTML is on disk and one download has been
\* made for each asset before the loop's position; at the ok row every asset has
\* been tried, every stylesheet noted has been rewritten (rewriting it again
\* changes nothing), the page on disk is the retargeted one, and the steps taken
\* are exactly the claimed ones in the claimed order.
StepsOrdered ==
  /\ pc = "assets" =>
       /\ obs.steps = <<"write_html">> \o [i \in 1..(cur.ai - 1) |-> "download_asset"]
       /\ PagePath \in DOMAIN files
       /\ Len(cur.asset_results) = cur.ai - 1
  /\ JustOk =>
       /\ obs.steps = StepsOf(cur.assets, cur.css_paths)
       /\ Len(cur.asset_results) = Len(cur.assets)
       /\ files[PagePath] = RetargetStylesheets(cur.html_str, cur.local_html_rel)
       /\ \A i \in 1..Len(cur.css_paths) :
            files[cur.css_paths[i]]
              = rewrite_css_urls(files[cur.css_paths[i]], cur.base_url, root_host,
                                 dirname(cur.css_paths[i]))

\* A step either continues the current candidate's steps or starts the next
\* candidate, and the next candidate starts only from the loop's head with the
\* current candidate's row appended.
StepsInSequence ==
  IF idx' # idx
  THEN pc = "loop" /\ Len(report_rows) = idx /\ idx' = idx + 1 /\ obs'.steps = <<>>
  ELSE IsPrefix(obs.steps, obs'.steps)

CanonicalPath == path_join(args.outdir, standard_css_rel)

\* The page written at `local` has a stylesheet link that points at the run-wide
\* stylesheet.
RefersToCanonical(local) ==
  \E i \in 1..Len(files[path_join(args.outdir, local)]) :
    /\ files[path_join(args.outdir, local)][i].tag = "link"
    /\ RelHasStylesheet(files[path_join(args.outdir, local)][i].rel)
    /\ files[path_join(args.outdir, local)][i].ref
         = relpath(standard_css_rel, dirname(local))

\* C15: the stylesheet links of a page are retargeted to the run-wide
\* stylesheet only if a stylesheet has been downloaded: a page finished while
\* none has been is on disk as the first rewrite produced it, and no written
\* page refers to the run-wide stylesheet while that file does not exist.
C15_RetargetOnlyWithStylesheet ==
  /\ JustOk /\ ~css_copied =>
       files[path_join(args.outdir, cur.local_html_rel)]
         = rewrite_html_and_collect(cur.html_bytes, cur.base_url, root_host,
                                    args.strip_all_js).html
  /\ \A i \in 1..Len(manifest) :
       path_join(args.outdir, manifest[i].local) \in DOMAIN files
       /\ RefersToCanonical(manifest[i].local)
         => CanonicalPath \in DOMAIN files

\* The content of the response that made the download just finished succeed.
LastDownloaded(o) == o.assets[Len(o.assets)].log[Len(o.assets[Len(o.assets)].log)].resp.content

\* A step leaves the run-wide stylesheet as it is once it exists, and brings it
\* into existence only during the first successful stylesheet download of the
\* run, with the content of that download.
CanonicalStep ==
  IF CanonicalPath \in DOMAIN files
  THEN CanonicalPath \in DOMAIN files' /\ files'[CanonicalPath] = files[CanonicalPath]
  ELSE CanonicalPath \in DOMAIN files' =>
         /\ ~css_copied
         /\ css_copied'
         /\ Len(obs'.assets) = Len(obs.assets) + 1
         /\ files'[CanonicalPath] = LastDownloaded(obs')

\* C16: across the whole run the run-wide stylesheet file is written at most
\* once, with the content of the first successfully downloaded stylesheet, and
\* no later asset download, stylesheet rewrite or candidate changes it.
C16_CanonicalWrittenOnce == [][CanonicalStep]_vars

\* ------------------------------------------------------------------------
\* Properties of ensure_local_path
\* ------------------------------------------------------------------------

\* The reference derivation, step by step: index.html appended to an empty path
\* or one that ends in a separator,
RefIndexed(p) == IF p = "" \/ EndsWith(p, "/") THEN p \o "index.html" ELSE p

\* the query string and the fragment cut off,
RefCut(p) == SplitFirst(SplitFirst(p, "?"), "#")

\* and exactly one leading separator taken away.
RefStripOne(p) == IF StartsWith(p, "/") THEN Tail(p) ELSE p

Reference(p) == RefStripOne(RefCut(RefIndexed(p)))

\* C17 as stated: for every URL path ensure_local_path returns the result of the
\* reference derivation, which strips exactly one leading path separator.
C17_ReferenceDerivation ==
  pc = "path_called" => result.local = Reference(records)

\* C17 as the code has it: ensure_local_path returns the result of the reference
\* derivation with every leading path separator stripped, so the local path
\* never starts with a separator; download_asset computes the same local path
\* for the URL with that path.
C17_LocalPathDerivation ==
  pc = "path_called" =>
    /\ result.local = LStrip(Reference(records), "/")
    /\ ~StartsWith(result.local, "/")
    /\ result.asset = LStrip(Reference(urlparse("http://e.c" \o records).path), "/")

\* A path with several leading separators that ends in one: all of them are
\* gone and index.html is appended.
C17_ManySeparatorsStripped ==
  /\ pc = "path_called"
  /\ StartsWith(records, "//")
  /\ EndsWith(records, "/")
  /\ result.local = "a/index.html"
  /\ result.asset = result.local

\* ------------------------------------------------------------------------
\* Properties of rewrite_css_urls
\* ------------------------------------------------------------------------

\* The occurrence is a data: URI or a pure fragment.
DataOrFragment(it) == StartsWith(it.ref, "data:") \/ StartsWith(it.ref, "#")

\* The URL the occurrence of the call resolves to.
ResolvedRef == urljoin(records.base_url, records.item.ref)

\* The directory the stylesheet of the call is stored in.
StoredDir == dirname(path_join(args.outdir, records.alocal))

\* What a same-site occurrence is replaced with: the local path of the asset
\* relative to the CSS output directory.
RelativeLocal == relpath(ensure_local_path(urlparse(ResolvedRef).path), StoredDir)

LeadsTo(ref) == AbsSegs(path_join(StoredDir, ref))

\* Where the asset the occurrence resolves to is stored: the output root plus
\* its local path (line 620).
StoredAt == AbsSegs(path_join(args.outdir, ensure_local_path(urlparse(ResolvedRef).path)))

\* C20: when main() rewrites a downloaded stylesheet in place, every same-site
\* reference it writes leads, from the directory the stylesheet is stored in, to
\* the place under the output root where the referenced asset is stored, for
\* every output root and every depth of the stylesheet.
C20_RewrittenRefOnDisk ==
  pc = "css_called" /\ ~DataOrFragment(records.item) /\ is_same_site(ResolvedRef, root_host)
    => LeadsTo(result.ref) = StoredAt

\* ------------------------------------------------------------------------
\* Properties of rewrite_html_and_collect
\* ------------------------------------------------------------------------

\* The URL the source of the call's element resolves to, and its host: the
\* netloc without the port, in lower case.
ResolvedSrc == urljoin(records.base_url, records.item.ref)

HostOf(url) == Lower(SplitFirst(urlparse(url).netloc, ":"))

\* The host is the root host or one of its subdomains.
HostSameSite(url) == HostOf(url) = root_host \/ EndsWith(HostOf(url), "." \o root_host)

ScriptKept == \E i \in 1..Len(result.html) : result.html[i].tag = "script"

\* C19: of the script elements with a source, with stripping off those whose
\* source resolves to a host that is neither the root host nor a subdomain of it
\* are removed and the others are kept with their absolute URL in the asset
\* list; with stripping on none remains.  A host that only ends with the root
\* host's text is not same-site.
C19_ScriptsBySite ==
  /\ ~is_same_site("http://note.c/app.js", "e.c")
  /\ pc = "html_called" /\ records.item.tag = "script" /\ records.item.ref # "" =>
       IF args.strip_all_js THEN ~ScriptKept
       ELSE IF HostSameSite(ResolvedSrc)
       THEN ScriptKept /\ \E i \in 1..Len(result.assets) : result.assets[i] = ResolvedSrc
       ELSE ~ScriptKept

\* ------------------------------------------------------------------------
\* C22: a usable capture ends in an ok row
\* ------------------------------------------------------------------------

\* The fetches of a resolver call whose response passes the three checks.
UsableIn(log) == {i \in 1..Len(log) : Usable(log[i].resp, args.include_nonhtml)}

\* The log of the attempt that found a usable capture: the first attempt's when
\* it has one, else the second's.
FoundLog == IF UsableIn(obs.log1) # {} THEN obs.log1 ELSE pick.log

\* The timestamp of the newest usable capture of a log.
IsNewestUsable(log, ts) ==
  /\ \E i \in UsableIn(log) : log[i].timestamp = ts
  /\ \A j \in UsableIn(log) : StrLessEq(log[j].timestamp, ts)

\* C22: when the candidate record or a capture of the URL's history passes the
\* three usability checks, the row appended for the candidate is an ok row with
\* the timestamp of the newest such capture of the attempt that found it,
\* whatever the response body, an empty one included.
C22_UsableCaptureWritten ==
  RowAppended /\ UsableIn(FoundLog) # {} =>
    /\ report_rows[idx].status = "ok"
    /\ IsNewestUsable(FoundLog, report_rows[idx].timestamp)

\* ------------------------------------------------------------------------
\* C21: one local HTML path per written candidate
\* ------------------------------------------------------------------------

\* The file of the page of an ok entry.
WrittenPath(i) == path_join(args.outdir, manifest[i].local)

\* No two ok entries of the run share a local HTML path.
DistinctLocalPaths ==
  \A i, j \in 1..Len(manifest) : i # j => manifest[i].local # manifest[j].local

\* A step leaves the HTML file of every ok entry as it was written.
WrittenPagesKept ==
  \A i \in 1..Len(manifest) :
    WrittenPath(i) \in DOMAIN files' /\ files'[WrittenPath(i)] = files[WrittenPath(i)]

\* C21: in one run no two candidates that are written have the same local HTML
\* path, and the HTML file of an ok entry is not overwritten by the page or an
\* asset of a later candidate, also when the candidates differ only in query
\* string, scheme or same-site host.
C21_OnePathPerWrittenPage == [](DistinctLocalPaths) /\ [][WrittenPagesKept]_vars

====
